---- MODULE Spec2Model ----
(***************************************************************************)
(* A model of the simux discrete-event simulation engine: the event loop   *)
(* of Environment.run_simulation, the Resource seize/release/queue logic   *)
(* and the process_event / ingest_entity handlers of the module graph.     *)
(* Times are integers; a delay generator is a nondeterministic draw.       *)
(***************************************************************************)
EXTENDS Integers, Sequences, FiniteSets, TLC

\* ------------------------------------------------------------------ bounds
MaxArrivals == 2        \* arrivals the arrival generators yield in total, at most
MaxArrivalTime == 2     \* latest arrival timestamp
MaxDelay == 2           \* largest value a delay generator yields
MaxCapacity == 2        \* largest resource capacity
Duration == 3           \* the horizon passed to run_simulation
MaxBurst == 11          \* arrivals of the burst graph, all at time 0
MaxCalls == 3           \* entities a caller of the module API hands in
MaxAttr == 1            \* values 0..MaxAttr of the attribute a batch matches on
MaxModules == 5         \* largest graph whose construction orders are enumerated

VARIABLES
    cfg,            \* which module graph was built (fixed for a run)
    duration,       \* argument of run_simulation
    arrivals,       \* per CreateModule: the timestamps its arrival_generator yields
    pc,             \* "init" before run_simulation, "loop" in the main loop, "done" after it
    failed,         \* "none", or the exception that propagated out of run_simulation
    event_queue,    \* Environment.event_queue: heap of <<event_time, entity_ind, event>>
    resources,      \* Resource objects by name
    batch_queue,    \* BatchModule.queue by module name: sequence of <<entity_ind, entry_time>>
    entities,       \* Entity objects by entity_ind
    attrs,          \* attribute dicts by reference (Entity.attr points at one)
    next_ind,       \* next value of the entity_ind counter
    metrics,        \* sys_var['entity']['metrics']
    trace,          \* sys_var['entity']['trace']
    variables,      \* sys_var['variables']
    curr_event,     \* the event the loop popped last (NoEvent before the first pop)
    held,           \* history: per resource and entity, demand seized and not yet released
    created_writes, \* history: per entity, number of writes of 'Created At'
    handler_calls,  \* history: the value handlers the last handler run invoked, in order
    pending_with,   \* history: keys of the events that were pending when curr_event was popped
    first_run       \* history: sys_var of the first run once the process runs a second (<<>> before)

vars == <<cfg, duration, arrivals, pc, failed, event_queue, resources, batch_queue,
          entities, attrs, next_ind, metrics, trace, variables, curr_event, held,
          created_writes, handler_calls, pending_with, first_run>>

\* --------------------------------------------------------------- utilities
RECURSIVE SumFun(_, _)
SumFun(f, S) ==
    IF S = {} THEN 0
    ELSE LET x == CHOOSE y \in S : TRUE IN f[x] + SumFun(f, S \ {x})

Range(s) == {s[i] : i \in 1..Len(s)}

NonDecreasing(s) == \A i \in 1..(Len(s) - 1) : s[i] <= s[i + 1]

\* ------------------------------------------------------------------- heapq
\* Python compares heap items as tuples: the first n components are numbers;
\* when they all tie the next component is an object without an ordering.
\* a comparison that looks at the first component (the time) only
TupleLessByTime(a, b, i, n) == a[1] < b[1]

RECURSIVE TupleLess(_, _, _, _)
TupleLess(a, b, i, n) ==
    IF i > n THEN FALSE
    ELSE IF a[i] < b[i] THEN TRUE
    ELSE IF a[i] > b[i] THEN FALSE
    ELSE TupleLess(a, b, i + 1, n)

KeyTie(a, b, n) == (\A i \in 1..n : a[i] = b[i]) /\ a # b

RECURSIVE SiftDown(_, _, _, _, _)
SiftDown(heap, startpos, pos, newitem, n) ==
    IF pos > startpos
    THEN LET parentpos == pos \div 2
             parent == heap[parentpos]
         IN  IF KeyTie(newitem, parent, n)
             THEN [heap |-> [heap EXCEPT ![pos] = newitem], err |-> "TypeError"]
             ELSE IF TupleLess(newitem, parent, 1, n)
                  THEN SiftDown([heap EXCEPT ![pos] = parent], startpos, parentpos, newitem, n)
                  ELSE [heap |-> [heap EXCEPT ![pos] = newitem], err |-> "none"]
    ELSE [heap |-> [heap EXCEPT ![pos] = newitem], err |-> "none"]

RECURSIVE SiftUp(_, _, _, _)
SiftUp(heap, pos, newitem, n) ==
    LET endpos == Len(heap)
        childpos == 2 * pos
        rightpos == childpos + 1
    IN  IF childpos <= endpos
        THEN IF rightpos <= endpos /\ KeyTie(heap[childpos], heap[rightpos], n)
             THEN [heap |-> [heap EXCEPT ![pos] = newitem], err |-> "TypeError"]
             ELSE LET c == IF rightpos <= endpos
                              /\ ~TupleLess(heap[childpos], heap[rightpos], 1, n)
                           THEN rightpos ELSE childpos
                  IN  SiftUp([heap EXCEPT ![pos] = heap[c]], c, newitem, n)
        ELSE SiftDown([heap EXCEPT ![pos] = newitem], 1, pos, newitem, n)

HeapPush(heap, item, n) ==
    SiftDown(Append(heap, item), 1, Len(heap) + 1, item, n)

\* list.pop(): the last item of the list, whatever its key
ListPop(heap, n) ==
    [item |-> heap[Len(heap)], heap |-> SubSeq(heap, 1, Len(heap) - 1), err |-> "none"]

\* heappop of a non-empty heap: [item, heap, err]
HeapPop(heap, n) ==
    LET lastelt == heap[Len(heap)]
        rest == SubSeq(heap, 1, Len(heap) - 1)
    IN  IF rest = <<>>
        THEN [item |-> lastelt, heap |-> rest, err |-> "none"]
        ELSE LET r == SiftUp([rest EXCEPT ![1] = lastelt], 1, lastelt, n)
             IN  [item |-> rest[1], heap |-> r.heap, err |-> r.err]

EventKeyLen == 2      \* (event_time, entity_ind, event)
QueueKeyLen == 3      \* (queue_entry_time, num_resources, entity_ind, entity, handler)

\* ------------------------------------------------------------ module graphs
\* One record shape for every module kind; a kind reads only its own fields.
Module(kind) ==
    [kind |-> kind, next_module |-> "", next_module_dup |-> "", resource |-> "",
     num_resources |-> 0, cost_allocation |-> "", batch_type |-> "",
     batch_size |-> 0, batch_attr |-> "", batch_entity_type |-> "",
     assignments |-> <<>>, gen_entity_type |-> "", condition_handler |-> ""]

CreateModule(next, type) ==
    [Module("Create") EXCEPT !.next_module = next, !.gen_entity_type = type]
SeizeModule(next, r, n) ==
    [Module("Seize") EXCEPT !.next_module = next, !.resource = r, !.num_resources = n]
DelayModule(next, cost) ==
    [Module("Delay") EXCEPT !.next_module = next, !.cost_allocation = cost \o " Time"]
ReleaseModule(next, r, n) ==
    [Module("Release") EXCEPT !.next_module = next, !.resource = r, !.num_resources = n]
AssignModule(next, as) ==
    [Module("Assign") EXCEPT !.next_module = next, !.assignments = as]
DuplicateModule(orig, dup) ==
    [Module("Duplicate") EXCEPT !.next_module = orig, !.next_module_dup = dup]
BatchModule(next, type, size, attr, etype) ==
    [Module("Batch") EXCEPT !.next_module = next, !.batch_type = type, !.batch_size = size,
                            !.batch_attr = attr, !.batch_entity_type = etype]
SeparateModule(next) ==
    [Module("Separate") EXCEPT !.next_module = next]
DecideTwoWayByConditionModule(t, f, h) ==
    [Module("Decide") EXCEPT !.next_module = t, !.next_module_dup = f, !.condition_handler = h]
DisposeModule == Module("Dispose")

Assignment(type, name, handler) ==
    [assign_type |-> type, assign_name |-> name, assign_value_handler |-> handler]

\* testcase_2: Create -> Seize -> Delay -> Release -> Dispose on one Server
Testcase2 ==
    [arrival_modules |-> <<"Test Create">>,
     resources |-> {"Server"},
     variables |-> <<>>,
     modules |->
        ("Test Create" :> CreateModule("Test Seize", "Test")) @@
        ("Test Seize" :> SeizeModule("Test Delay", "Server", 1)) @@
        ("Test Delay" :> DelayModule("Test Release", "Value-Added")) @@
        ("Test Release" :> ReleaseModule("Test Dispose", "Server", 1)) @@
        ("Test Dispose" :> DisposeModule)]

\* Two Seize/Release groups with different num_resources on the same Server
MixedDemand ==
    [arrival_modules |-> <<"Create A", "Create B">>,
     resources |-> {"Server"},
     variables |-> <<>>,
     modules |->
        ("Create A" :> CreateModule("Seize A", "A")) @@
        ("Seize A" :> SeizeModule("Delay A", "Server", 1)) @@
        ("Delay A" :> DelayModule("Release A", "Value-Added")) @@
        ("Release A" :> ReleaseModule("Dispose", "Server", 1)) @@
        ("Create B" :> CreateModule("Seize B", "B")) @@
        ("Seize B" :> SeizeModule("Delay B", "Server", 2)) @@
        ("Delay B" :> DelayModule("Release B", "Value-Added")) @@
        ("Release B" :> ReleaseModule("Dispose", "Server", 2)) @@
        ("Dispose" :> DisposeModule)]

\* A Release that no Seize precedes
Unseized ==
    [arrival_modules |-> <<"Create">>,
     resources |-> {"Server"},
     variables |-> <<>>,
     modules |->
        ("Create" :> CreateModule("Release", "Test")) @@
        ("Release" :> ReleaseModule("Dispose", "Server", 1)) @@
        ("Dispose" :> DisposeModule)]

\* testcase_3: Create -> Assign -> Duplicate -> two Delays -> shared Batch -> Delay -> Dispose
Testcase3 ==
    [arrival_modules |-> <<"Create Person">>,
     resources |-> {},
     variables |-> ("last_entity" :> 0),
     modules |->
        ("Create Person" :> CreateModule("Assign entity ID", "Person")) @@
        ("Assign entity ID" :>
            AssignModule("Duplicate 1",
                <<Assignment("VARIABLE", "last_entity", "assign_last_entity_handler"),
                  Assignment("ATTRIBUTE", "entity_id", "assign_entity_id_handler")>>)) @@
        ("Duplicate 1" :> DuplicateModule("Delay 1", "Delay 2")) @@
        ("Delay 1" :> DelayModule("Batch 1", "Value-Added")) @@
        ("Delay 2" :> DelayModule("Batch 1", "Value-Added")) @@
        ("Batch 1" :> BatchModule("Delay 3", "ATTRIBUTE", 2, "entity_id", "Person Group")) @@
        ("Delay 3" :> DelayModule("Dispose 1", "Non-Value-Added")) @@
        ("Dispose 1" :> DisposeModule)]

\* testcase_5: couples are batched, driven, separated; each constituent goes
\* to its store, and the couple is batched again for a second visit to store 1.
Testcase5 ==
    [arrival_modules |-> <<"Create Person">>,
     resources |-> {"Clerk Store 1", "Clerk Store 2"},
     variables |-> ("last_entity_ind" :> -1),
     modules |->
        ("Create Person" :> CreateModule("Assign Errands", "Person")) @@
        ("Assign Errands" :>
            AssignModule("Create Couple",
                <<Assignment("VARIABLE", "last_entity_ind", "assign_last_entity_ind_handler"),
                  Assignment("ATTRIBUTE", "couple_ind", "assign_couple_ind_handler"),
                  Assignment("ATTRIBUTE", "going_to_store1",
                             "assign_going_to_store1_handler")>>)) @@
        ("Create Couple" :>
            BatchModule("Drive to Shopping District", "ATTRIBUTE", 2, "couple_ind", "Couple")) @@
        ("Drive to Shopping District" :> DelayModule("Split up for errands", "Value-Added")) @@
        ("Split up for errands" :> SeparateModule("Choose store to enter")) @@
        ("Choose store to enter" :>
            DecideTwoWayByConditionModule("Seize Store 1 Clerk", "Seize Store 2 Clerk",
                                          "decide_store_handler")) @@
        ("Seize Store 1 Clerk" :> SeizeModule("Delay Store 1 Checkout", "Clerk Store 1", 1)) @@
        ("Delay Store 1 Checkout" :> DelayModule("Release Store 1 Clerk", "Non-Value-Added")) @@
        ("Release Store 1 Clerk" :> ReleaseModule("Re-Batch Couple", "Clerk Store 1", 1)) @@
        ("Seize Store 2 Clerk" :> SeizeModule("Delay Store 2 Checkout", "Clerk Store 2", 1)) @@
        ("Delay Store 2 Checkout" :> DelayModule("Release Store 2 Clerk", "Value-Added")) @@
        ("Release Store 2 Clerk" :> ReleaseModule("Re-Batch Couple", "Clerk Store 2", 1)) @@
        ("Re-Batch Couple" :>
            BatchModule("Seize Store 1 Clerk Again", "ATTRIBUTE", 2, "couple_ind", "Couple")) @@
        ("Seize Store 1 Clerk Again" :>
            SeizeModule("Delay Store 1 Checkout Again", "Clerk Store 1", 1)) @@
        ("Delay Store 1 Checkout Again" :>
            DelayModule("Release Store 1 Clerk Again", "Value-Added")) @@
        ("Release Store 1 Clerk Again" :>
            ReleaseModule("Depart Shopping District", "Clerk Store 1", 1)) @@
        ("Depart Shopping District" :> DisposeModule)]

\* The Assign of testcase_5 in front of a batch of three by going_to_store1;
\* its arrivals come in one burst at time 0.
Burst ==
    [arrival_modules |-> <<"Create Person">>,
     resources |-> {},
     variables |-> ("last_entity_ind" :> -1),
     modules |->
        ("Create Person" :> CreateModule("Assign Errands", "Person")) @@
        ("Assign Errands" :>
            AssignModule("Batch Trio",
                <<Assignment("VARIABLE", "last_entity_ind", "assign_last_entity_ind_handler"),
                  Assignment("ATTRIBUTE", "couple_ind", "assign_couple_ind_handler"),
                  Assignment("ATTRIBUTE", "going_to_store1",
                             "assign_going_to_store1_handler")>>)) @@
        ("Batch Trio" :> BatchModule("Depart", "ATTRIBUTE", 3, "going_to_store1", "Trio")) @@
        ("Depart" :> DisposeModule)]

\* One Server behind Seize and Release modules of one and two units, driven
\* by a caller of ingest_entity and of Resource.seize / Resource.release.
Desk ==
    [arrival_modules |-> <<>>, resources |-> {"Server"}, variables |-> <<>>,
     modules |->
        ("Seize 1" :> SeizeModule("Dispose", "Server", 1)) @@
        ("Seize 2" :> SeizeModule("Dispose", "Server", 2)) @@
        ("Release 1" :> ReleaseModule("Dispose", "Server", 1)) @@
        ("Release 2" :> ReleaseModule("Dispose", "Server", 2)) @@
        ("Dispose" :> DisposeModule)]

\* Batch modules of both types with batch_size n, a Duplicate and a Separate,
\* driven by a caller of ingest_entity.
Bench(n) ==
    [arrival_modules |-> <<>>, resources |-> {}, variables |-> <<>>,
     modules |->
        ("Batch Any" :> BatchModule("Dispose", "ANY", n, "", "Batch")) @@
        ("Batch Attr" :> BatchModule("Dispose", "ATTRIBUTE", n, "kind", "Batch")) @@
        ("Duplicate" :> DuplicateModule("Dispose", "Dispose")) @@
        ("Separate" :> SeparateModule("Dispose")) @@
        ("Dispose" :> DisposeModule)]

\* Pairs that a Separate splits up again in front of a second Batch
Regroup ==
    [arrival_modules |-> <<"Create">>, resources |-> {}, variables |-> <<>>,
     modules |->
        ("Create" :> CreateModule("Pair up", "Single")) @@
        ("Pair up" :> BatchModule("Split", "ANY", 2, "", "Pair")) @@
        ("Split" :> SeparateModule("Pair again")) @@
        ("Pair again" :> BatchModule("Dispose", "ANY", 2, "", "Pair")) @@
        ("Dispose" :> DisposeModule)]

\* testcase_3's Assign with an ENTITY_TYPE assignment between its two
Retype ==
    [arrival_modules |-> <<"Create Person">>, resources |-> {},
     variables |-> ("last_entity" :> 0),
     modules |->
        ("Create Person" :> CreateModule("Assign entity ID", "Person")) @@
        ("Assign entity ID" :>
            AssignModule("Dispose 1",
                <<Assignment("VARIABLE", "last_entity", "assign_last_entity_handler"),
                  Assignment("ENTITY_TYPE", "Member", "assign_entity_type_handler"),
                  Assignment("ATTRIBUTE", "entity_id", "assign_entity_id_handler")>>)) @@
        ("Dispose 1" :> DisposeModule)]

\* testcase_3's Duplicate with the Assign behind its two Delays
Shared ==
    [arrival_modules |-> <<"Create Person">>, resources |-> {},
     variables |-> ("last_entity" :> 0),
     modules |->
        ("Create Person" :> CreateModule("Duplicate 1", "Person")) @@
        ("Duplicate 1" :> DuplicateModule("Delay 1", "Delay 2")) @@
        ("Delay 1" :> DelayModule("Assign entity ID", "Value-Added")) @@
        ("Delay 2" :> DelayModule("Assign entity ID", "Value-Added")) @@
        ("Assign entity ID" :>
            AssignModule("Dispose 1",
                <<Assignment("VARIABLE", "last_entity", "assign_last_entity_handler"),
                  Assignment("ATTRIBUTE", "entity_id", "assign_entity_id_handler")>>)) @@
        ("Dispose 1" :> DisposeModule)]

Configs == {"testcase_2", "mixed_demand", "unseized", "testcase_3", "testcase_5", "burst",
            "regroup", "retype", "line", "shared"}

GraphOf(g) == CASE g = "testcase_2" -> Testcase2
                [] g = "mixed_demand" -> MixedDemand
                [] g = "unseized" -> Unseized
                [] g = "testcase_3" -> Testcase3
                [] g = "testcase_5" -> Testcase5
                [] g = "burst" -> Burst
                [] g = "regroup" -> Regroup
                [] g = "retype" -> Retype
                [] g = "line" -> Testcase2
                [] g = "shared" -> Shared
                [] g = "desk" -> Desk
                [] g = "pairs" -> Bench(2)
                [] g = "trios" -> Bench(3)

Graph == GraphOf(cfg)

\* The values a delay generator may yield; the line graph's server may take
\* longer than two arrivals are apart.
Delays == 0..(IF cfg = "line" THEN MaxDelay + 1 ELSE MaxDelay)

Modules == Graph.modules

\* ------------------------------------------------------------- module_ind
\* The modules of a graph are constructed one after the other, in some order.
ConstructionOrders ==
    {order \in [1..Cardinality(DOMAIN Modules) -> DOMAIN Modules] :
        \A j, k \in DOMAIN order : j # k => order[j] # order[k]}

\* module_ind of the k-th module constructed: field(default_factory=
\* count().__next__) is evaluated in each class body, so every module class
\* draws from a counter of its own, which starts at 0.
module_ind(order, k) ==
    Cardinality({j \in 1..(k - 1) : Modules[order[j]].kind = Modules[order[k]].kind})

\* -------------------------------------------------------- handler context
\* A handler runs to completion on the mutable objects; an exception stops it
\* where it is raised, leaving what it had already written.  Every operator
\* below takes the context c it continues from and yields the context after.
\* The operators every handler goes through bind that context once
\* ({... : c \in {c0}}): its value is computed once, however often they read it.
Context(draws) ==
    [metrics |-> metrics, trace |-> trace, variables |-> variables,
     resources |-> resources, batch_queue |-> batch_queue, entities |-> entities,
     attrs |-> attrs, next_ind |-> next_ind, held |-> held,
     created_writes |-> created_writes,
     calls |-> <<>>,        \* value handlers invoked so far during this handler
     draws |-> draws,       \* values the delay generators yield during this handler
     out |-> <<>>,          \* events returned so far
     err |-> "none"]

Raise(c, e) == [c EXCEPT !.err = e]

NoEvent == [event_time |-> -1, event_name |-> "", event_handler |-> "",
            event_entity |-> -1, attr |-> <<>>, woken_from |-> -1]

\* woken_from is history: the queue entry time of the waiter a release woke.
Event(time, name, handler, ind, attr) ==
    [event_time |-> time, event_name |-> name, event_handler |-> handler,
     event_entity |-> ind, attr |-> attr, woken_from |-> -1]

Entity(type, time, attr_ref) ==
    [entity_type |-> type, arrival_time |-> time, attr |-> attr_ref,
     is_batch |-> FALSE, batched_entities |-> <<>>]

BatchEntity(type, time, attr_ref, batched) ==
    [entity_type |-> type, arrival_time |-> time, attr |-> attr_ref,
     is_batch |-> TRUE, batched_entities |-> batched]

Emit(c, event) == [c EXCEPT !.out = Append(@, event)]

\* ----------------------------------------------------------------- sys_var
\* a creating handler that leaves out the initialisation of the record
init_sys_var_entity_skipped(c, entity_type, entity_ind) == c

init_sys_var_entity(c, entity_type, entity_ind) ==
    [c EXCEPT
        !.metrics = (entity_ind :>
                        (("Entity Type" :> entity_type) @@
                         ("Value-Added Time" :> 0) @@
                         ("Non-Value-Added Time" :> 0) @@
                         ("Wait Time" :> 0) @@
                         ("Transfer Time" :> 0) @@
                         ("Other Time" :> 0))) @@ c.metrics,
        !.trace = (entity_ind :> <<>>) @@ c.trace]

\* a trace that grows at the front instead of the back
TracePrepend(c0, ind, name, t) ==
    CHOOSE c1 \in
        {IF c.err # "none" THEN c
         ELSE IF ind \notin DOMAIN c.trace THEN Raise(c, "KeyError")
         ELSE [c EXCEPT !.trace[ind] = <<<<name, t>>>> \o @] : c \in {c0}} : TRUE

\* sys_var['entity']['trace'][ind].append((f'Exit {name}', t))
TraceAppend(c0, ind, name, t) ==
    CHOOSE c1 \in
        {IF c.err # "none" THEN c
         ELSE IF ind \notin DOMAIN c.trace THEN Raise(c, "KeyError")
         ELSE [c EXCEPT !.trace[ind] = Append(@, <<name, t>>)] : c \in {c0}} : TRUE

\* sys_var['entity']['metrics'][ind][key] += v
MetricAdd(c0, ind, key, v) ==
    CHOOSE c1 \in
        {IF c.err # "none" THEN c
         ELSE IF ind \notin DOMAIN c.metrics \/ key \notin DOMAIN c.metrics[ind]
              THEN Raise(c, "KeyError")
         ELSE [c EXCEPT !.metrics[ind][key] = @ + v] : c \in {c0}} : TRUE

Count(f, x) == IF x \in DOMAIN f THEN f[x] ELSE 0

\* sys_var['entity']['metrics'][ind][key] = v
MetricSet(c0, ind, key, v) ==
    CHOOSE c1 \in
        {IF c.err # "none" THEN c
         ELSE IF ind \notin DOMAIN c.metrics THEN Raise(c, "KeyError")
         ELSE [c EXCEPT !.metrics[ind] = (key :> v) @@ @,
                        !.created_writes = IF key = "Created At"
                                           THEN (ind :> Count(@, ind) + 1) @@ @
                                           ELSE @] : c \in {c0}} : TRUE

\* The trace/metric mirror a handler applies to a BatchEntity's constituents.
RECURSIVE TraceAppendAll(_, _, _, _)
TraceAppendAll(c, inds, name, t) ==
    IF inds = <<>> THEN c
    ELSE TraceAppendAll(TraceAppend(c, Head(inds), name, t), Tail(inds), name, t)

RECURSIVE MetricAddAll(_, _, _, _)
MetricAddAll(c, inds, key, v) ==
    IF inds = <<>> THEN c
    ELSE MetricAddAll(MetricAdd(c, Head(inds), key, v), Tail(inds), key, v)

RECURSIVE MetricSetAll(_, _, _, _)
MetricSetAll(c, inds, key, v) ==
    IF inds = <<>> THEN c
    ELSE MetricSetAll(MetricSet(c, Head(inds), key, v), Tail(inds), key, v)

\* ---------------------------------------------------------------- Resource
NewResource(capacity) ==
    [capacity |-> capacity, available |-> capacity, queue |-> <<>>,
     availability_log |-> <<>>]

HeldAdd(h, r, ind, n) == [h EXCEPT ![r] = (ind :> Count(@, ind) + n) @@ @]

HeldSub(h, r, ind, n) ==
    [h EXCEPT ![r] = (ind :> (IF Count(@, ind) >= n THEN @[ind] - n ELSE 0)) @@ @]

SetQueue(c, r, p) == [c EXCEPT !.resources[r].queue = p.heap, !.err = p.err]

\* a queue that puts the newest waiter first
queue_entity_newest_first(c, r, ind, num_resources, queue_entry_time, event_handler) ==
    SetQueue(c, r, HeapPush(c.resources[r].queue,
                            <<0 - queue_entry_time, num_resources, ind, event_handler>>,
                            QueueKeyLen))

queue_entity(c, r, ind, num_resources, queue_entry_time, event_handler) ==
    SetQueue(c, r, HeapPush(c.resources[r].queue,
                            <<queue_entry_time, num_resources, ind, event_handler>>,
                            QueueKeyLen))

\* a seize that takes the units without logging the new level
seize_unlogged(c, r, num_resources, seize_time) ==
    IF c.err # "none" THEN c
    ELSE IF c.resources[r].available - num_resources < 0 THEN Raise(c, "ValueError")
    ELSE [c EXCEPT !.resources[r].available = @ - num_resources]

seize(c, r, num_resources, seize_time) ==
    IF c.err # "none" THEN c
    ELSE IF c.resources[r].available - num_resources < 0 THEN Raise(c, "ValueError")
    ELSE [c EXCEPT !.resources[r].available = @ - num_resources,
                   !.resources[r].availability_log =
                        Append(@, <<seize_time, c.resources[r].available - num_resources>>)]

\* The units release() seizes for the waiter it wakes.
WakeSeizeAmount(num_resources, required_resources) == num_resources

\* What release() puts in the synthesized Seize event's attr.
WakeEventAttr(release_time, queue_entry_time) == <<>>

\* release(), after the waiter's units are seized: pop it and return its event.
\* head is the queue's first tuple (entry time, demand, entity, handler).
Wake(c, r, head, release_time) ==
    IF c.err # "none" THEN c
    ELSE Emit([SetQueue(c, r, HeapPop(c.resources[r].queue, QueueKeyLen))
                  EXCEPT !.held = HeldAdd(@, r, head[3], head[2])],
              [Event(release_time, "Seize", head[4], head[3],
                     WakeEventAttr(release_time, head[1]))
                  EXCEPT !.woken_from = head[1]])

\* a release that wakes the first waiter of the queue whose demand fits
WakeFitting(c, r, num_resources, release_time) ==
    LET q == c.resources[r].queue
        fits == {i \in 1..Len(q) : q[i][2] <= c.resources[r].available}
        first == CHOOSE i \in fits : \A j \in fits : i <= j
    IN  IF fits = {} THEN c
        ELSE Emit([seize(c, r, num_resources, release_time)
                      EXCEPT !.resources[r].queue =
                                 [k \in 1..(Len(q) - 1) |-> IF k < first THEN q[k] ELSE q[k + 1]],
                             !.held = HeldAdd(@, r, q[first][3], q[first][2])],
                  [Event(release_time, "Seize", q[first][4], q[first][3], <<>>)
                      EXCEPT !.woken_from = q[first][1]])

\* a release that goes on waking waiters, each seizing its own demand, for as
\* long as the head of the queue fits
RECURSIVE WakeAll(_, _, _, _)
WakeAll(c, r, num_resources, release_time) ==
    IF c.err = "none"
       /\ Len(c.resources[r].queue) # 0
       /\ c.resources[r].queue[1][2] <= c.resources[r].available
    THEN WakeAll(Wake(seize(c, r, c.resources[r].queue[1][2], release_time),
                      r, c.resources[r].queue[1], release_time),
                 r, num_resources, release_time)
    ELSE c

\* a release that wakes the head only when more than its demand is available
WakeNextIfSpare(c, r, num_resources, release_time) ==
    IF Len(c.resources[r].queue) # 0
       /\ c.resources[r].queue[1][2] < c.resources[r].available
    THEN Wake(seize(c, r, WakeSeizeAmount(num_resources, c.resources[r].queue[1][2]),
                    release_time),
              r, c.resources[r].queue[1], release_time)
    ELSE c

\* release(), after the units are given back
WakeNext(c, r, num_resources, release_time) ==
    IF Len(c.resources[r].queue) # 0
       /\ c.resources[r].queue[1][2] <= c.resources[r].available
    THEN Wake(seize(c, r, WakeSeizeAmount(num_resources, c.resources[r].queue[1][2]),
                    release_time),
              r, c.resources[r].queue[1], release_time)
    ELSE c

\* release() without its check against capacity
release_unchecked(c, r, num_resources, release_time) ==
    IF c.err # "none" THEN c
    ELSE WakeNext([c EXCEPT !.resources[r].available = @ + num_resources,
                            !.resources[r].availability_log =
                                Append(@, <<release_time,
                                            c.resources[r].available + num_resources>>)],
                  r, num_resources, release_time)

\* a release that gives the units back and logs before it checks the capacity
release_checked_late(c, r, num_resources, release_time) ==
    IF c.err # "none" THEN c
    ELSE IF num_resources > c.resources[r].capacity - c.resources[r].available
         THEN Raise([c EXCEPT !.resources[r].available = @ + num_resources,
                              !.resources[r].availability_log =
                                  Append(@, <<release_time,
                                              c.resources[r].available + num_resources>>)],
                    "ValueError")
    ELSE WakeNext([c EXCEPT !.resources[r].available = @ + num_resources,
                            !.resources[r].availability_log =
                                Append(@, <<release_time,
                                            c.resources[r].available + num_resources>>)],
                  r, num_resources, release_time)

\* a release that gives the units back and never looks at the queue
release_no_wake(c, r, num_resources, release_time) ==
    IF c.err # "none" THEN c
    ELSE IF num_resources > c.resources[r].capacity - c.resources[r].available
         THEN Raise(c, "ValueError")
    ELSE [c EXCEPT !.resources[r].available = @ + num_resources,
                   !.resources[r].availability_log =
                       Append(@, <<release_time, c.resources[r].available + num_resources>>)]

\* The event release() returns, if any, is appended to c.out.
release(c, r, num_resources, release_time) ==
    IF c.err # "none" THEN c
    ELSE IF num_resources > c.resources[r].capacity - c.resources[r].available
         THEN Raise(c, "ValueError")
    ELSE WakeNext([c EXCEPT !.resources[r].available = @ + num_resources,
                            !.resources[r].availability_log =
                                Append(@, <<release_time,
                                            c.resources[r].available + num_resources>>)],
                  r, num_resources, release_time)

\* for (t1, a1), (t2, _) in zip(log, log[1:]): resource_utilization += (t2 - t1) * a1
RECURSIVE AvailabilitySum(_)
AvailabilitySum(log) ==
    IF Len(log) < 2 THEN 0
    ELSE (log[2][1] - log[1][1]) * log[1][2] + AvailabilitySum(Tail(log))

\* a calc_utilization that accumulates (t2 - t1) * (capacity - a1)
calc_utilization_busy(r, dur) ==
    [num |-> r.capacity * (IF Len(r.availability_log) < 2 THEN 0
                           ELSE r.availability_log[Len(r.availability_log)][1]
                                - r.availability_log[1][1])
             - AvailabilitySum(r.availability_log),
     den |-> r.capacity * dur]

\* Resource.calc_utilization: the quotient num / den
calc_utilization(r, dur) ==
    [num |-> AvailabilitySum(r.availability_log), den |-> r.capacity * dur]

\* ------------------------------------------------------------ ingest_entity
SeizedEvent(c, m, r, ind, ingest_time) ==
    IF c.err # "none" THEN c
    ELSE Emit([c EXCEPT !.held = HeldAdd(@, r, ind, Modules[m].num_resources)],
              Event(ingest_time, "Seize", m, ind, <<>>))

\* a SeizeModule that also queues the entity when others are waiting
SeizeIngestBehindQueue(c, m, ind, ingest_time) ==
    IF \/ c.resources[Modules[m].resource].available < Modules[m].num_resources
       \/ Len(c.resources[Modules[m].resource].queue) # 0
    THEN queue_entity(c, Modules[m].resource, ind, Modules[m].num_resources, ingest_time, m)
    ELSE SeizedEvent(seize(c, Modules[m].resource, Modules[m].num_resources, ingest_time),
                     m, Modules[m].resource, ind, ingest_time)

SeizeIngest(c, m, ind, ingest_time) ==
    IF c.resources[Modules[m].resource].available < Modules[m].num_resources
    THEN queue_entity(c, Modules[m].resource, ind, Modules[m].num_resources, ingest_time, m)
    ELSE SeizedEvent(seize(c, Modules[m].resource, Modules[m].num_resources, ingest_time),
                     m, Modules[m].resource, ind, ingest_time)

\* a Delay event scheduled before the ingest
DelayEventTimeEarlier(ingest_time, delay_time) == ingest_time - delay_time

\* event_time of the Delay event for a draw of the delay generator
DelayEventTime(ingest_time, delay_time) == ingest_time + delay_time

DelayIngest(c, m, ind, ingest_time) ==
    Emit([c EXCEPT !.draws = Tail(@)],
         Event(DelayEventTime(ingest_time, Head(c.draws)), "Delay", m, ind,
               "delay_time" :> Head(c.draws)))

ReleasedEvent(c, m, ind, ingest_time) ==
    IF c.err # "none" THEN c
    ELSE Emit([c EXCEPT !.held = HeldSub(@, Modules[m].resource, ind,
                                         Modules[m].num_resources)],
              Event(ingest_time, "Release", m, ind, <<>>))

ReleaseIngest(c, m, ind, ingest_time) ==
    ReleasedEvent(release(c, Modules[m].resource, Modules[m].num_resources, ingest_time),
                  m, ind, ingest_time)

DisposeIngest(c, m, ind, ingest_time) ==
    Emit(c, Event(ingest_time, "Dispose", m, ind, <<>>))

AssignIngest(c, m, ind, ingest_time) ==
    Emit(c, Event(ingest_time, "Assign", m, ind, <<>>))

DuplicateIngest(c, m, ind, ingest_time) ==
    IF c.entities[ind].is_batch THEN Raise(c, "TypeError")
    ELSE Emit(c, Event(ingest_time, "Duplicate", m, ind, <<>>))

SeparateIngest(c, m, ind, ingest_time) ==
    IF ~c.entities[ind].is_batch THEN Raise(c, "TypeError")
    ELSE Emit(c, Event(ingest_time, "Separate", m, ind, <<>>))

DecideIngest(c, m, ind, ingest_time) ==
    Emit(c, Event(ingest_time, "Decide Two-Way By Condition", m, ind, <<>>))

\* entity.attr of an entity: the dict its reference points at
AttrOf(c, ind) == c.attrs[c.entities[ind].attr]

\* a scan that matches every queued entity that has the attribute
AttrMatchPresent(c, batch_attr, q_ind, ind) ==
    /\ batch_attr \in DOMAIN AttrOf(c, q_ind)
    /\ batch_attr \in DOMAIN AttrOf(c, ind)

\* the test of the ATTRIBUTE scan, for queued entity q_ind and arriving entity ind
AttrMatch(c, batch_attr, q_ind, ind) ==
    /\ batch_attr \in DOMAIN AttrOf(c, q_ind)
    /\ batch_attr \in DOMAIN AttrOf(c, ind)
    /\ AttrOf(c, q_ind)[batch_attr] = AttrOf(c, ind)[batch_attr]

\* the scan of the queue from position i: [needed, match] after the loop
RECURSIVE ScanQueue(_, _, _, _, _, _)
ScanQueue(c, m, ind, i, needed_to_batch, match_indices) ==
    IF i > Len(c.batch_queue[m])
    THEN [needed |-> needed_to_batch, match |-> match_indices]
    ELSE IF AttrMatch(c, Modules[m].batch_attr, c.batch_queue[m][i][1], ind)
         THEN IF needed_to_batch - 1 = 0
              THEN [needed |-> 0, match |-> Append(match_indices, i)]
              ELSE ScanQueue(c, m, ind, i + 1, needed_to_batch - 1, Append(match_indices, i))
         ELSE ScanQueue(c, m, ind, i + 1, needed_to_batch, match_indices)

DeleteAt(queue, i) == SubSeq(queue, 1, i - 1) \o SubSeq(queue, i + 1, Len(queue))

\* for i in match_indices: del self.queue[i]   (positions are 1-based here)
RECURSIVE DeleteMatches(_, _, _)
DeleteMatches(c, m, match_indices) ==
    IF match_indices = <<>> \/ c.err # "none" THEN c
    ELSE IF Head(match_indices) > Len(c.batch_queue[m]) THEN Raise(c, "IndexError")
    ELSE DeleteMatches([c EXCEPT !.batch_queue[m] = DeleteAt(@, Head(match_indices))],
                       m, Tail(match_indices))

BatchEvent(c, m, ind, ingest_time, batch_entities) ==
    IF c.err # "none" THEN c
    ELSE Emit(c, Event(ingest_time, "Batch", m, ind, "batch_entities" :> batch_entities))

Enqueue(c, m, ind, ingest_time) ==
    [c EXCEPT !.batch_queue[m] = Append(@, <<ind, ingest_time>>)]

\* the ATTRIBUTE branch, after the scan gave sc
AttributeBatch(c, m, ind, ingest_time, sc) ==
    IF sc.needed = 0
    THEN BatchEvent(DeleteMatches(c, m, sc.match), m, ind, ingest_time,
                    <<<<ind, ingest_time>>>>
                    \o [k \in 1..Len(sc.match) |-> c.batch_queue[m][sc.match[k]]])
    ELSE Enqueue(c, m, ind, ingest_time)

\* an ANY batch that waits for one waiter more than it takes
AnyBatchLate(c, m, ind, ingest_time) ==
    IF Len(c.batch_queue[m]) > Modules[m].batch_size - 1
    THEN BatchEvent([c EXCEPT !.batch_queue[m] =
                        SubSeq(@, Modules[m].batch_size, Len(@))],
                    m, ind, ingest_time,
                    <<<<ind, ingest_time>>>>
                    \o SubSeq(c.batch_queue[m], 1, Modules[m].batch_size - 1))
    ELSE Enqueue(c, m, ind, ingest_time)

AnyBatch(c, m, ind, ingest_time) ==
    IF Len(c.batch_queue[m]) >= Modules[m].batch_size - 1
    THEN BatchEvent([c EXCEPT !.batch_queue[m] =
                        SubSeq(@, Modules[m].batch_size, Len(@))],
                    m, ind, ingest_time,
                    <<<<ind, ingest_time>>>>
                    \o SubSeq(c.batch_queue[m], 1, Modules[m].batch_size - 1))
    ELSE Enqueue(c, m, ind, ingest_time)

\* a Batch ingest without the test of the entity's class
BatchIngestUnchecked(c, m, ind, ingest_time) ==
    IF Modules[m].batch_type = "ATTRIBUTE"
    THEN AttributeBatch(c, m, ind, ingest_time,
                        ScanQueue(c, m, ind, 1, Modules[m].batch_size - 1, <<>>))
    ELSE IF Modules[m].batch_type = "ANY" THEN AnyBatch(c, m, ind, ingest_time)
    ELSE Raise(c, "ValueError")

BatchIngest(c, m, ind, ingest_time) ==
    IF c.entities[ind].is_batch THEN Raise(c, "TypeError")
    ELSE IF Modules[m].batch_type = "ATTRIBUTE"
         THEN AttributeBatch(c, m, ind, ingest_time,
                             ScanQueue(c, m, ind, 1, Modules[m].batch_size - 1, <<>>))
    ELSE IF Modules[m].batch_type = "ANY" THEN AnyBatch(c, m, ind, ingest_time)
    ELSE Raise(c, "ValueError")

ingest_entity(c0, m, ind, ingest_time) ==
    CHOOSE c1 \in
        {IF c.err # "none" THEN c
         ELSE CASE Modules[m].kind = "Seize" -> SeizeIngest(c, m, ind, ingest_time)
                [] Modules[m].kind = "Delay" -> DelayIngest(c, m, ind, ingest_time)
                [] Modules[m].kind = "Release" -> ReleaseIngest(c, m, ind, ingest_time)
                [] Modules[m].kind = "Dispose" -> DisposeIngest(c, m, ind, ingest_time)
                [] Modules[m].kind = "Assign" -> AssignIngest(c, m, ind, ingest_time)
                [] Modules[m].kind = "Duplicate" -> DuplicateIngest(c, m, ind, ingest_time)
                [] Modules[m].kind = "Batch" -> BatchIngest(c, m, ind, ingest_time)
                [] Modules[m].kind = "Separate" -> SeparateIngest(c, m, ind, ingest_time)
                [] Modules[m].kind = "Decide" -> DecideIngest(c, m, ind, ingest_time) : c \in {c0}} : TRUE

\* ------------------------------------------------------------ process_event
\* The constituents a handler mirrors its trace/metric updates to.
Batched(ind) ==
    IF entities[ind].is_batch THEN entities[ind].batched_entities ELSE <<>>

\* A handler's last step: pass the event's entity on to the module's successor.
Forward(c, event) ==
    ingest_entity(c, Modules[event.event_handler].next_module, event.event_entity,
                  event.event_time)

CreateProcess(c, event) ==
    Forward(
        TraceAppend(
            MetricSet(
                init_sys_var_entity(c, c.entities[event.event_entity].entity_type,
                                    event.event_entity),
                event.event_entity, "Created At", event.event_time),
            event.event_entity, event.event_handler, event.event_time),
        event)

\* if 'wait_time' in event.attr: metrics[ind]['Wait Time'] += event.attr['wait_time']
WaitTimeAdd(c, inds, event) ==
    IF "wait_time" \in DOMAIN event.attr
    THEN MetricAddAll(c, inds, "Wait Time", event.attr["wait_time"])
    ELSE c

\* Seize and Delay interleave the trace and the metric update per constituent;
\* both orders write the same values.
SeizeProcess(c, event) ==
    Forward(
        WaitTimeAdd(
            TraceAppendAll(
                WaitTimeAdd(
                    TraceAppend(c, event.event_entity, event.event_handler, event.event_time),
                    <<event.event_entity>>, event),
                Batched(event.event_entity), event.event_handler, event.event_time),
            Batched(event.event_entity), event),
        event)

DelayProcess(c, event) ==
    Forward(
        TraceAppendAll(
            MetricAddAll(c, <<event.event_entity>> \o Batched(event.event_entity),
                         Modules[event.event_handler].cost_allocation,
                         event.attr["delay_time"]),
            <<event.event_entity>> \o Batched(event.event_entity),
            event.event_handler, event.event_time),
        event)

ReleaseProcess(c, event) ==
    Forward(
        TraceAppendAll(c, <<event.event_entity>> \o Batched(event.event_entity),
                       event.event_handler, event.event_time),
        event)

DisposeProcess(c, event) ==
    TraceAppendAll(
        MetricSetAll(c, <<event.event_entity>> \o Batched(event.event_entity),
                     "Disposed At", event.event_time),
        <<event.event_entity>> \o Batched(event.event_entity),
        event.event_handler, event.event_time)

\* The value handlers of the test cases, by name: [ok, value] where ok is
\* FALSE when the handler's dict lookup raises KeyError.
HandlerResult(handler, vs, attr) ==
    CASE handler = "assign_last_entity_handler" ->
            IF "last_entity" \in DOMAIN vs
            THEN [ok |-> TRUE, value |-> vs["last_entity"] + 1]
            ELSE [ok |-> FALSE, value |-> 0]
      [] handler = "assign_entity_id_handler" ->
            IF "last_entity" \in DOMAIN vs
            THEN [ok |-> TRUE, value |-> vs["last_entity"]]
            ELSE [ok |-> FALSE, value |-> 0]
      [] handler = "assign_last_entity_ind_handler" ->
            IF "last_entity_ind" \in DOMAIN vs
            THEN [ok |-> TRUE, value |-> vs["last_entity_ind"] + 1]
            ELSE [ok |-> FALSE, value |-> 0]
      [] handler = "assign_couple_ind_handler" ->
            IF "last_entity_ind" \in DOMAIN vs
            THEN [ok |-> TRUE, value |-> vs["last_entity_ind"] \div 2]
            ELSE [ok |-> FALSE, value |-> 0]
      [] handler = "assign_going_to_store1_handler" ->
            IF "last_entity_ind" \in DOMAIN vs
            THEN [ok |-> TRUE, value |-> (vs["last_entity_ind"] % 2 = 0)]
            ELSE [ok |-> FALSE, value |-> FALSE]
      [] handler = "decide_store_handler" ->
            IF "going_to_store1" \in DOMAIN attr
            THEN [ok |-> TRUE, value |-> attr["going_to_store1"]]
            ELSE [ok |-> FALSE, value |-> FALSE]

\* one assignment, given the result h of its value handler
Assigned(c, ind, assignment, h) ==
    IF ~h.ok THEN Raise(c, "KeyError")
    ELSE IF assignment.assign_type = "VARIABLE"
         THEN [c EXCEPT !.variables = (assignment.assign_name :> h.value) @@ @]
         ELSE [c EXCEPT !.attrs[c.entities[ind].attr] =
                            (assignment.assign_name :> h.value) @@ @]

Assign(c, ind, assignment) ==
    IF assignment.assign_type \in {"VARIABLE", "ATTRIBUTE"}
    THEN Assigned([c EXCEPT !.calls = Append(@, assignment.assign_value_handler)],
                  ind, assignment,
                  HandlerResult(assignment.assign_value_handler, c.variables, AttrOf(c, ind)))
    ELSE IF assignment.assign_type = "ENTITY_TYPE"
         THEN [c EXCEPT !.entities[ind].entity_type = assignment.assign_name]
    ELSE Raise(c, "ValueError")

\* the assignments applied last to first
RECURSIVE AssignAllReversed(_, _, _)
AssignAllReversed(c, ind, assignments) ==
    IF assignments = <<>> \/ c.err # "none" THEN c
    ELSE Assign(AssignAllReversed(c, ind, Tail(assignments)), ind, Head(assignments))

\* for assignment in self.assignments
RECURSIVE AssignAll(_, _, _)
AssignAll(c, ind, assignments) ==
    IF assignments = <<>> \/ c.err # "none" THEN c
    ELSE AssignAll(Assign(c, ind, Head(assignments)), ind, Tail(assignments))

AssignProcess(c, event) ==
    Forward(
        TraceAppendAll(
            AssignAll(c, event.event_entity, Modules[event.event_handler].assignments),
            <<event.event_entity>> \o Batched(event.event_entity),
            event.event_handler, event.event_time),
        event)

\* a constructor that hands out the counter's value without advancing it
ConstructSameInd(c, entity) ==
    [c EXCEPT !.entities = (c.next_ind :> entity) @@ @,
              !.attrs = IF entity.attr = c.next_ind THEN (c.next_ind :> <<>>) @@ @ ELSE @]

\* Entity(...) / BatchEntity(...): the constructor draws entity_ind from the
\* counter the arrivals were numbered by.
Construct(c, entity) ==
    [c EXCEPT !.entities = (c.next_ind :> entity) @@ @,
              !.attrs = IF entity.attr = c.next_ind THEN (c.next_ind :> <<>>) @@ @ ELSE @,
              !.next_ind = @ + 1]

\* the duplicate dup has been constructed
Duplicated(c, dup, event) ==
    ingest_entity(
        ingest_entity(
            TraceAppend(
                MetricSet(
                    init_sys_var_entity(
                        TraceAppend(c, event.event_entity, event.event_handler,
                                    event.event_time),
                        c.entities[dup].entity_type, dup),
                    dup, "Created At", event.event_time),
                dup, event.event_handler, event.event_time),
            Modules[event.event_handler].next_module, event.event_entity, event.event_time),
        Modules[event.event_handler].next_module_dup, dup, event.event_time)

\* a Duplicate that gives the duplicate a copy of the original's attr dict
DuplicateProcessCopied(c, event) ==
    Duplicated(
        [Construct(c, Entity(c.entities[event.event_entity].entity_type, event.event_time,
                             c.next_ind))
            EXCEPT !.attrs[c.next_ind] = c.attrs[c.entities[event.event_entity].attr]],
        c.next_ind, event)

DuplicateProcess(c, event) ==
    Duplicated(
        Construct(c, Entity(c.entities[event.event_entity].entity_type, event.event_time,
                            c.entities[event.event_entity].attr)),
        c.next_ind, event)

\* a Batch handler that traces the constituents without crediting their wait
RECURSIVE BatchMembersTraceOnly(_, _, _)
BatchMembersTraceOnly(c, batch_entities, event) ==
    IF batch_entities = <<>> THEN c
    ELSE BatchMembersTraceOnly(
            TraceAppend(c, Head(batch_entities)[1], event.event_handler, event.event_time),
            Tail(batch_entities), event)

\* for entity, queue_entry_time in event.attr['batch_entities']: Wait Time, trace
RECURSIVE BatchMembers(_, _, _)
BatchMembers(c, batch_entities, event) ==
    IF batch_entities = <<>> THEN c
    ELSE BatchMembers(
            TraceAppend(
                MetricAdd(c, Head(batch_entities)[1], "Wait Time",
                          event.event_time - Head(batch_entities)[2]),
                Head(batch_entities)[1], event.event_handler, event.event_time),
            Tail(batch_entities), event)

\* self.batch_entity_type or event.event_entity.entity_type
BatchEntityType(c, event) ==
    IF Modules[event.event_handler].batch_entity_type # ""
    THEN Modules[event.event_handler].batch_entity_type
    ELSE c.entities[event.event_entity].entity_type

\* the batch entity b has been constructed
BatchCreated(c, b, event) ==
    ingest_entity(
        BatchMembers(
            TraceAppend(
                MetricSet(init_sys_var_entity(c, c.entities[b].entity_type, b),
                          b, "Created At", event.event_time),
                b, event.event_handler, event.event_time),
            event.attr["batch_entities"], event),
        Modules[event.event_handler].next_module, b, event.event_time)

BatchProcess(c, event) ==
    BatchCreated(
        Construct(c, BatchEntity(BatchEntityType(c, event), event.event_time, c.next_ind,
                                 [k \in 1..Len(event.attr["batch_entities"]) |->
                                     event.attr["batch_entities"][k][1]])),
        c.next_ind, event)

\* a Separate handler that drops the constituents
SeparateMembersNone(c, inds, event) == c

\* for entity in batched_entities: trace, then ingest into the successor
RECURSIVE SeparateMembers(_, _, _)
SeparateMembers(c, inds, event) ==
    IF inds = <<>> \/ c.err # "none" THEN c
    ELSE SeparateMembers(
            ingest_entity(
                TraceAppend(c, Head(inds), event.event_handler, event.event_time),
                Modules[event.event_handler].next_module, Head(inds), event.event_time),
            Tail(inds), event)

SeparateProcess(c, event) ==
    IF ~c.entities[event.event_entity].is_batch THEN Raise(c, "AssertionError")
    ELSE SeparateMembers(
            TraceAppend(
                MetricSet(c, event.event_entity, "Disposed At", event.event_time),
                event.event_entity, event.event_handler, event.event_time),
            c.entities[event.event_entity].batched_entities, event)

\* the branch, given the result h of the condition handler
Decided(c, event, h) ==
    IF c.err # "none" THEN c
    ELSE IF ~h.ok THEN Raise(c, "KeyError")
    ELSE ingest_entity(c,
            IF h.value THEN Modules[event.event_handler].next_module
                       ELSE Modules[event.event_handler].next_module_dup,
            event.event_entity, event.event_time)

DecideProcess(c, event) ==
    Decided(
        TraceAppendAll(c, <<event.event_entity>> \o Batched(event.event_entity),
                       event.event_handler, event.event_time),
        event,
        HandlerResult(Modules[event.event_handler].condition_handler, c.variables,
                      AttrOf(c, event.event_entity)))

\* -------------------------------------------------------------- Environment
add_event(heap, event) ==
    HeapPush(heap, <<event.event_time, event.event_entity, event>>, EventKeyLen)

RECURSIVE AddEvents(_, _)
AddEvents(p0, events) ==
    CHOOSE p1 \in
        {IF events = <<>> \/ p.err # "none" THEN p
         ELSE AddEvents(add_event(p.heap, Head(events)), Tail(events)) : p \in {p0}} : TRUE

\* CreateModule.generate_arrivals: one Entity and one Create event per timestamp
generate_arrivals(m, times, first_ind) ==
    [i \in 1..Len(times) |-> Event(times[i], "Create", m, first_ind + i - 1, <<>>)]

NewEntities(m, times, first_ind) ==
    [i \in first_ind..(first_ind + Len(times) - 1) |->
        Entity(Modules[m].gen_entity_type, times[i - first_ind + 1], i)]

\* st after one arrival module: its entities are constructed, then its events pushed (p).
Arrived(st, m, p) ==
    [heap |-> p.heap, err |-> p.err,
     next_ind |-> st.next_ind + Len(arrivals[m]),
     entities |-> NewEntities(m, arrivals[m], st.next_ind) @@ st.entities,
     attrs |-> [i \in DOMAIN NewEntities(m, arrivals[m], st.next_ind) |-> <<>>] @@ st.attrs]

RECURSIVE PopulateArrivals(_, _)
PopulateArrivals(st, mods) ==
    IF mods = <<>> \/ st.err # "none" THEN st
    ELSE PopulateArrivals(
            Arrived(st, Head(mods),
                    AddEvents([heap |-> st.heap, err |-> "none"],
                              generate_arrivals(Head(mods), arrivals[Head(mods)], st.next_ind))),
            Tail(mods))

\* a loop that stops at events at exactly time = duration
LoopConditionStrict ==
    Len(event_queue) # 0 /\ event_queue[1][3].event_time < duration

LoopCondition ==
    Len(event_queue) # 0 /\ event_queue[1][3].event_time <= duration

Keys(heap) == {<<heap[i][1], heap[i][2]>> : i \in 1..Len(heap)}

ArrivalSeqs ==
    {s \in UNION {[1..n -> 0..MaxArrivalTime] : n \in 0..MaxArrivals} : NonDecreasing(s)}

\* The timestamps the arrival generators of graph g may yield.
ArrivalsOf(g) ==
    IF g = "burst"
    THEN {[m \in Range(GraphOf(g).arrival_modules) |-> [i \in 1..MaxBurst |-> 0]]}
    ELSE IF g = "line"
    THEN {[m \in Range(GraphOf(g).arrival_modules) |->
              [i \in 1..(MaxArrivalTime + 1) |-> i - 1]]}
    ELSE {a \in [Range(GraphOf(g).arrival_modules) -> ArrivalSeqs] :
             SumFun([m \in DOMAIN a |-> Len(a[m])], DOMAIN a) <= MaxArrivals}

Init ==
    /\ cfg \in Configs
    /\ duration = Duration
    /\ arrivals \in ArrivalsOf(cfg)
    /\ resources \in [GraphOf(cfg).resources -> {NewResource(k) : k \in 1..MaxCapacity}]
    /\ pc = "init"
    /\ failed = "none"
    /\ event_queue = <<>>
    /\ batch_queue = [m \in {n \in DOMAIN GraphOf(cfg).modules :
                                GraphOf(cfg).modules[n].kind = "Batch"} |-> <<>>]
    /\ entities = <<>>
    /\ attrs = <<>>
    /\ next_ind = 0
    /\ metrics = <<>>
    /\ trace = <<>>
    /\ variables = GraphOf(cfg).variables
    /\ curr_event = NoEvent
    /\ held = [r \in GraphOf(cfg).resources |-> <<>>]
    /\ created_writes = <<>>
    /\ handler_calls = <<>>
    /\ first_run = <<>>
    /\ pending_with = {}

Populated(st) ==
    /\ event_queue' = st.heap
    /\ failed' = st.err
    /\ next_ind' = st.next_ind
    /\ entities' = st.entities
    /\ attrs' = st.attrs

\* run_simulation up to the loop: __populate_event_queue_arrivals
Populate ==
    /\ pc = "init"
    /\ \E st \in {PopulateArrivals([heap |-> event_queue, err |-> "none",
                                      next_ind |-> next_ind, entities |-> entities,
                                      attrs |-> attrs],
                                     Graph.arrival_modules)} : Populated(st)
    /\ pc' = "loop"
    /\ UNCHANGED <<cfg, duration, arrivals, resources, batch_queue, metrics, trace, variables,
                   curr_event, held, created_writes, handler_calls, pending_with, first_run>>

Popped == HeapPop(event_queue, EventKeyLen)

\* What the handler left behind (c) and the queue after the pushes (q).
Store(c, q) ==
    /\ event_queue' = q.heap
    /\ failed' = q.err
    /\ metrics' = c.metrics
    /\ trace' = c.trace
    /\ variables' = c.variables
    /\ resources' = c.resources
    /\ batch_queue' = c.batch_queue
    /\ entities' = c.entities
    /\ attrs' = c.attrs
    /\ next_ind' = c.next_ind
    /\ held' = c.held
    /\ created_writes' = c.created_writes
    /\ handler_calls' = c.calls
    /\ first_run' = first_run

PushNew(p, c) ==
    \E q \in {IF c.err # "none" THEN [heap |-> p.heap, err |-> c.err]
               ELSE AddEvents([heap |-> p.heap, err |-> "none"], c.out)} : Store(c, q)

\* One iteration of the loop: p is the result of the heappop, c the context the
\* popped event's handler leaves; then every event it returned is pushed.
Iterate(p, c) ==
    /\ curr_event' = p.item[3]
    /\ pending_with' = Keys(p.heap)
    /\ PushNew(p, IF p.err # "none" THEN Raise(Context(<<>>), p.err) ELSE c)
    /\ UNCHANGED <<cfg, duration, arrivals, pc>>

\* The loop is running and the event at the head belongs to a module of this kind.
HeadIs(kind) ==
    /\ pc = "loop"
    /\ failed = "none"
    /\ LoopCondition
    /\ Modules[Popped.item[3].event_handler].kind = kind

CreateStep ==
    /\ HeadIs("Create")
    /\ \E d \in Delays, p \in {Popped} :
          \E c \in {CreateProcess(Context(<<d>>), p.item[3])} : Iterate(p, c)

SeizeStep ==
    /\ HeadIs("Seize")
    /\ \E d \in Delays, p \in {Popped} :
          \E c \in {SeizeProcess(Context(<<d>>), p.item[3])} : Iterate(p, c)

DelayStep ==
    /\ HeadIs("Delay")
    /\ \E d \in Delays, p \in {Popped} :
          \E c \in {DelayProcess(Context(<<d>>), p.item[3])} : Iterate(p, c)

ReleaseStep ==
    /\ HeadIs("Release")
    /\ \E d \in Delays, p \in {Popped} :
          \E c \in {ReleaseProcess(Context(<<d>>), p.item[3])} : Iterate(p, c)

DisposeStep ==
    /\ HeadIs("Dispose")
    /\ \E p \in {Popped} :
          \E c \in {DisposeProcess(Context(<<>>), p.item[3])} : Iterate(p, c)

AssignStep ==
    /\ HeadIs("Assign")
    /\ \E d \in Delays, p \in {Popped} :
          \E c \in {AssignProcess(Context(<<d>>), p.item[3])} : Iterate(p, c)

\* both successors may draw a delay
DuplicateStep ==
    /\ HeadIs("Duplicate")
    /\ \E d1 \in Delays, d2 \in Delays, p \in {Popped} :
          \E c \in {DuplicateProcess(Context(<<d1, d2>>), p.item[3])} : Iterate(p, c)

BatchStep ==
    /\ HeadIs("Batch")
    /\ \E d \in Delays, p \in {Popped} :
          \E c \in {BatchProcess(Context(<<d>>), p.item[3])} : Iterate(p, c)

\* one ingest per constituent; the successors here draw no delay
SeparateStep ==
    /\ HeadIs("Separate")
    /\ \E p \in {Popped} :
          \E c \in {SeparateProcess(Context(<<>>), p.item[3])} : Iterate(p, c)

DecideStep ==
    /\ HeadIs("Decide")
    /\ \E d \in Delays, p \in {Popped} :
          \E c \in {DecideProcess(Context(<<d>>), p.item[3])} : Iterate(p, c)

\* a loop that polls the queue instead of returning
ExitNever ==
    /\ pc = "loop"
    /\ failed = "none"
    /\ ~LoopCondition
    /\ UNCHANGED vars

\* The loop's condition is false: run_simulation goes on to the metrics.
Exit ==
    /\ pc = "loop"
    /\ failed = "none"
    /\ ~LoopCondition
    /\ pc' = "done"
    /\ UNCHANGED <<cfg, duration, arrivals, failed, event_queue, resources, batch_queue,
                   entities, attrs, next_ind, metrics, trace, variables, curr_event, held,
                   created_writes, handler_calls, pending_with, first_run>>

Next ==
    \/ Populate
    \/ CreateStep
    \/ SeizeStep
    \/ DelayStep
    \/ ReleaseStep
    \/ DisposeStep
    \/ AssignStep
    \/ DuplicateStep
    \/ BatchStep
    \/ SeparateStep
    \/ DecideStep
    \/ Exit

Spec == Init /\ [][Next]_vars

\* ------------------------------------------------- a second run in the process
\* The process builds the same test case again and runs it for the same
\* duration with the same arrival streams: new Environment, Resources, modules
\* and sys_var; the Entity class and its counter are the process's.
RunAgain ==
    /\ pc = "done"
    /\ failed = "none"
    /\ first_run = <<>>
    /\ first_run' = [metrics |-> metrics, trace |-> trace]
    /\ pc' = "init"
    /\ event_queue' = <<>>
    /\ resources' = [r \in DOMAIN resources |-> NewResource(resources[r].capacity)]
    /\ batch_queue' = [m \in DOMAIN batch_queue |-> <<>>]
    /\ metrics' = <<>>
    /\ trace' = <<>>
    /\ variables' = Graph.variables
    /\ curr_event' = NoEvent
    /\ held' = [r \in DOMAIN held |-> <<>>]
    /\ created_writes' = <<>>
    /\ handler_calls' = <<>>
    /\ pending_with' = {}
    /\ UNCHANGED <<cfg, duration, arrivals, failed, entities, attrs, next_ind>>

\* The graphs whose only time-value streams are their arrivals.
RerunInit == Init /\ cfg \in {"burst", "regroup", "retype"}

RerunNext ==
    \/ Populate
    \/ CreateStep
    \/ AssignStep
    \/ BatchStep
    \/ SeparateStep
    \/ DisposeStep
    \/ Exit
    \/ RunAgain

RerunSpec == RerunInit /\ [][RerunNext]_vars

\* The loop is sequential code: it takes its next step whenever it has one.
FairSpec == Spec /\ WF_vars(Next)

\* ------------------------------------------------- calls of the module API
\* ingest_entity, Resource.seize and Resource.release are public: besides the
\* Environment, any caller may construct entities and hand them to a module.
\* curr_event records the call; event_queue collects the events it returned.
CallTimes ==
    {t \in {curr_event.event_time, curr_event.event_time + 1} : 0 <= t /\ t <= MaxArrivalTime}

CallInit ==
    /\ cfg \in {"desk", "pairs", "trios"}
    /\ duration = Duration
    /\ arrivals = <<>>
    /\ resources \in [GraphOf(cfg).resources -> {NewResource(k) : k \in 1..MaxCapacity}]
    /\ pc = "calls"
    /\ failed = "none"
    /\ event_queue = <<>>
    /\ batch_queue = [m \in {n \in DOMAIN GraphOf(cfg).modules :
                                GraphOf(cfg).modules[n].kind = "Batch"} |-> <<>>]
    /\ entities = <<>>
    /\ attrs = <<>>
    /\ next_ind = 0
    /\ metrics = <<>>
    /\ trace = <<>>
    /\ variables = <<>>
    /\ curr_event = NoEvent
    /\ held = [r \in GraphOf(cfg).resources |-> <<>>]
    /\ created_writes = <<>>
    /\ handler_calls = <<>>
    /\ first_run = <<>>
    /\ pending_with = {}

\* The call left context c; an exception ends the caller's run.
Called(c, call, then) ==
    /\ Store(c, [heap |-> event_queue \o c.out, err |-> c.err])
    /\ curr_event' = call
    /\ pc' = IF c.err # "none" THEN "raised" ELSE then
    /\ UNCHANGED <<cfg, duration, arrivals, pending_with>>

\* a fresh Entity is handed to a SeizeModule
SeizeCall ==
    /\ pc = "calls"
    /\ next_ind < MaxCalls
    /\ \E m \in {n \in DOMAIN Modules : Modules[n].kind = "Seize"}, t \in CallTimes :
          \E c \in {ingest_entity(Construct(Context(<<>>), Entity("Job", t, next_ind)),
                                   m, next_ind, t)} :
             Called(c, Event(t, "ingest_entity", m, next_ind, <<>>), "calls")

\* an entity that holds units is handed to a ReleaseModule
ReleaseCall ==
    /\ pc = "calls"
    /\ \E m \in {n \in DOMAIN Modules : Modules[n].kind = "Release"}, t \in CallTimes :
          \E ind \in {i \in DOMAIN held[Modules[m].resource] :
                          held[Modules[m].resource][i] > 0} :
             \E c \in {ingest_entity(Context(<<>>), m, ind, t)} :
                Called(c, Event(t, "ingest_entity", m, ind, <<>>), "calls")

\* Resource.seize, Resource.release, or seize immediately followed by release,
\* called on the resource as the modules left it; the caller stops afterwards.
ResourceCall ==
    /\ pc = "calls"
    /\ \E r \in DOMAIN resources, d \in 1..(MaxCapacity + 1), t \in CallTimes,
          op \in {"seize", "release", "seize_release"} :
          /\ op = "seize_release" => resources[r].available >= d
          /\ \E c \in {CASE op = "seize" -> seize(Context(<<>>), r, d, t)
                          [] op = "release" -> release(Context(<<>>), r, d, t)
                          [] op = "seize_release" ->
                                release(seize(Context(<<>>), r, d, t), r, d, t)} :
                Called(c, Event(t, op, r, -1, "num_resources" :> d), "returned")

\* a fresh Entity or BatchEntity, with a value for the attribute "kind" or
\* without that attribute, is handed to a Batch, Duplicate or Separate module
\* (one entity more where batches of three leave a waiter behind)
IngestCall ==
    /\ pc = "calls"
    /\ next_ind < MaxCalls + (IF cfg = "trios" THEN 1 ELSE 0)
    /\ \E m \in {n \in DOMAIN Modules : Modules[n].kind \in {"Batch", "Duplicate", "Separate"}},
          t \in CallTimes, is_batch \in BOOLEAN,
          attr \in {<<>>} \cup {"kind" :> v : v \in 0..MaxAttr} :
          \E c \in {ingest_entity(
                       [Construct(Context(<<>>),
                                  IF is_batch THEN BatchEntity("Batch", t, next_ind, <<>>)
                                  ELSE Entity("Job", t, next_ind))
                           EXCEPT !.attrs[next_ind] = attr],
                       m, next_ind, t)} :
             Called(c, Event(t, "ingest_entity", m, next_ind, <<>>), "calls")

CallNext ==
    \/ SeizeCall
    \/ ReleaseCall
    \/ ResourceCall
    \/ IngestCall

CallSpec == CallInit /\ [][CallNext]_vars

\* ================================================================= claims
\* A step of the main loop that pops an event and runs its handler.
PopStep == pc = "loop" /\ pc' = "loop"

Seized(r) == SumFun(held[r], DOMAIN held[r])

\* C1: for every resource, between handler invocations, available plus the
\* demands of the entities that have seized (directly or by being woken from
\* the queue) and not yet released equals capacity.
C1_Conservation ==
    \A r \in DOMAIN resources :
        resources[r].available + Seized(r) = resources[r].capacity

\* C2: for every resource 0 <= available <= capacity in every reachable state,
\* and every sample of availability_log has a value in [0, capacity].
C2_AvailableInRange ==
    \A r \in DOMAIN resources :
        /\ 0 <= resources[r].available
        /\ resources[r].available <= resources[r].capacity
        /\ \A i \in 1..Len(resources[r].availability_log) :
              /\ 0 <= resources[r].availability_log[i][2]
              /\ resources[r].availability_log[i][2] <= resources[r].capacity

\* a release woke a queued entity, whose Seize event has been processed
C2_Witness ==
    /\ curr_event.woken_from >= 0
    /\ \E r \in DOMAIN resources : Len(resources[r].availability_log) >= 3

\* The Release module the popped event's handler forwards its entity to, if any.
ReleasesInto(r) ==
    /\ pc = "loop" /\ failed = "none" /\ LoopCondition
    /\ Modules[event_queue[1][3].event_handler].kind \in {"Seize", "Delay", "Release", "Create"}
    /\ Modules[Modules[event_queue[1][3].event_handler].next_module].kind = "Release"
    /\ Modules[Modules[event_queue[1][3].event_handler].next_module].resource = r

\* C3: when release(d, t) finds a non-empty queue whose head has demand
\* h <= available (after adding d), it pops the head and seizes exactly h for
\* it: available after = available before + d - h.
C3_WakeSeizesHeadDemand ==
    [][\A r \in DOMAIN resources :
          (ReleasesInto(r) /\ Len(resources'[r].queue) < Len(resources[r].queue))
          => resources'[r].available =
                resources[r].available
                + Modules[Modules[event_queue[1][3].event_handler].next_module].num_resources
                - resources[r].queue[1][2]]_vars

\* C4: an entity queued at a SeizeModule at time q and woken by a release at
\* time t has t - q added to its Wait Time when its synthesized Seize event is
\* processed.
C4_WokenWaitTime ==
    [][(PopStep /\ failed' = "none" /\ curr_event'.woken_from >= 0)
       => metrics'[curr_event'.event_entity]["Wait Time"] =
             metrics[curr_event'.event_entity]["Wait Time"]
             + (curr_event'.event_time - curr_event'.woken_from)]_vars

\* C5: the processed event times are non-decreasing, and no pending event is
\* earlier than the event handled last.
C5_TimeMonotone ==
    /\ [](\A i \in 1..Len(event_queue) : event_queue[i][1] >= curr_event.event_time)
    /\ [][curr_event'.event_time >= curr_event.event_time]_vars

\* time advanced through a positive delay and more events are pending
C5_Witness ==
    /\ curr_event.event_name = "Delay"
    /\ curr_event.attr["delay_time"] > 0
    /\ event_queue # <<>>

KeyLeq(t1, i1, t2, i2) == t1 < t2 \/ (t1 = t2 /\ i1 <= i2)

\* C6: each popped event is the minimum, under (event_time, entity_ind), of
\* all events pending in the event queue at that moment.
C6_PopsMinimum ==
    [][PopStep =>
        \A i \in 1..Len(event_queue) :
            KeyLeq(curr_event'.event_time, curr_event'.event_entity,
                   event_queue[i][1], event_queue[i][2])]_vars

\* an event was popped ahead of a pending one of equal time and higher ind
C6_Witness ==
    \E k \in pending_with : k[1] = curr_event.event_time /\ k[2] > curr_event.event_entity

\* C7 as claimed: for consecutively popped events (e1, e2) with equal times,
\* e1's entity ind <= e2's entity ind.
C7_ConsecutiveTiesAscend ==
    [][(PopStep /\ curr_event'.event_time = curr_event.event_time)
       => curr_event.event_entity <= curr_event'.event_entity]_vars

\* C7 amended: ... whenever e2 was already pending when e1 was popped.
C7_PendingTiesAscend ==
    [][(PopStep /\ curr_event'.event_time = curr_event.event_time
        /\ <<curr_event'.event_time, curr_event'.event_entity>> \in pending_with)
       => curr_event.event_entity <= curr_event'.event_entity]_vars

\* an event was popped and the next to be popped has the same time, a higher
\* ind and was pending together with it
C7_Witness ==
    /\ pc = "loop" /\ failed = "none" /\ LoopCondition
    /\ event_queue[1][1] = curr_event.event_time
    /\ event_queue[1][2] > curr_event.event_entity
    /\ <<event_queue[1][1], event_queue[1][2]>> \in pending_with

\* C8: no handler is invoked for an event later than duration, and when the
\* loop exits the queue is empty or its head is later than duration.
C8_HorizonCutoff ==
    /\ curr_event.event_time <= duration
    /\ pc = "done" => (event_queue = <<>> \/ event_queue[1][3].event_time > duration)

\* the loop exited after an event at exactly time = duration, leaving later events
C8_Witness ==
    /\ pc = "done"
    /\ event_queue # <<>>
    /\ curr_event.event_time = duration

\* C9 as claimed: the main loop reaches the state where the queue is empty or
\* its head is later than duration.
C9_LoopDrains == <>(pc = "done")

\* C9 amended: ... or a handler raised and the error left run_simulation.
C9_LoopTerminates == <>(pc = "done" \/ failed # "none")

\* the loop drained a queue that held events
C9_Witness == pc = "done" /\ curr_event.event_time >= 0 /\ event_queue = <<>>

\* C10: for every entity created by a Create, Duplicate or Batch module,
\* 'Created At' is written exactly once, its metrics/trace record is
\* initialised before any handler reads or updates it (no lookup of a missing
\* record fails), and every entry of its trace has time >= its Created At.
C10_CreatedOnce ==
    /\ failed # "KeyError"
    /\ DOMAIN trace = DOMAIN metrics
    /\ DOMAIN created_writes = DOMAIN metrics
    /\ \A ind \in DOMAIN metrics :
          /\ created_writes[ind] = 1
          /\ "Created At" \in DOMAIN metrics[ind]
          /\ \A k \in 1..Len(trace[ind]) : trace[ind][k][2] >= metrics[ind]["Created At"]

\* a batch entity went on past its Batch module, and one of its constituents
\* is a duplicate that went through a module of its own before being batched
C10_Witness ==
    \E b \in DOMAIN metrics :
        /\ entities[b].is_batch
        /\ Len(trace[b]) >= 2
        /\ \E k \in 1..Len(entities[b].batched_entities) :
              /\ trace[entities[b].batched_entities[k]][1][1] = "Duplicate 1"
              /\ Len(trace[entities[b].batched_entities[k]]) >= 3

\* The entities an event is processed for: its entity and, for a BatchEntity,
\* the constituents travelling inside it.
ProcessedFor(event) == {event.event_entity} \cup Range(Batched(event.event_entity))

Disposed(ind) == ind \in DOMAIN metrics /\ "Disposed At" \in DOMAIN metrics[ind]

\* C11: once 'Disposed At' is written for an entity it is not written again,
\* no later event is processed for that entity and no further trace entry is
\* appended for it.
C11_DisposedIsFinal ==
    [][\A ind \in DOMAIN metrics :
          Disposed(ind) =>
             /\ metrics'[ind] = metrics[ind]
             /\ trace'[ind] = trace[ind]
             /\ PopStep => ind \notin ProcessedFor(curr_event')]_vars

\* The timestamps of an entity's trace, in append order.
TraceTimes(ind) == [i \in 1..Len(trace[ind]) |-> trace[ind][i][2]]

\* C12: every disposed entity has Disposed At >= Created At, and the times of
\* every entity's trace entries (constituents of batches included) never
\* decrease in append order.
C12_TimesOrdered ==
    /\ \A ind \in DOMAIN metrics :
          Disposed(ind) => metrics[ind]["Disposed At"] >= metrics[ind]["Created At"]
    /\ \A ind \in DOMAIN trace : NonDecreasing(TraceTimes(ind))

\* a constituent of a batch is disposed later than it was created, with a
\* trace that spans three different times
C12_Witness ==
    \E b \in DOMAIN entities :
        /\ entities[b].is_batch
        /\ Disposed(b)
        /\ \E ind \in Range(Batched(b)) :
              /\ Disposed(ind)
              /\ metrics[ind]["Disposed At"] > metrics[ind]["Created At"]
              /\ Cardinality(Range(TraceTimes(ind))) >= 3

\* The caller has just made the Resource call op.
ResourceCalled(op) ==
    pc = "calls" /\ pc' # "calls" /\ curr_event'.event_name = op

\* The resource's queue is empty or its head demands more than is available:
\* a release that restores this level wakes nobody.
NoneToWake(r) ==
    Len(resources[r].queue) = 0 \/ resources[r].queue[1][2] > resources[r].available

\* C13 as stated: wherever available >= d, seize(d, t) immediately followed by
\* release(d, t) leaves available unchanged and appends exactly two
\* availability_log entries.
C13_SeizeReleaseRestores ==
    [][ResourceCalled("seize_release") =>
          \A r \in DOMAIN resources :
              /\ resources'[r].available = resources[r].available
              /\ Len(resources'[r].availability_log) =
                    Len(resources[r].availability_log) + 2]_vars

\* C13, amended: wherever available >= d and the queue is empty or its head
\* demands more than available, seize(d, t) immediately followed by
\* release(d, t) leaves available and the queue unchanged and appends exactly
\* the two entries (t, available - d), (t, available).
C13_SeizeReleaseRestoresUnlessWake ==
    [][ResourceCalled("seize_release") =>
          \A r \in DOMAIN resources :
              NoneToWake(r) =>
                  /\ failed' = "none"
                  /\ resources'[r].available = resources[r].available
                  /\ resources'[r].queue = resources[r].queue
                  /\ resources'[r].availability_log =
                        resources[r].availability_log
                        \o <<<<curr_event'.event_time,
                                resources[r].available - curr_event'.attr["num_resources"]>>,
                              <<curr_event'.event_time, resources[r].available>>>>]_vars

\* seize then release has returned on a resource that modules had seized from,
\* with an entity still waiting whose demand exceeds what is available
C13_Witness ==
    /\ pc = "returned"
    /\ curr_event.event_name = "seize_release"
    /\ \E r \in DOMAIN resources :
          /\ Len(resources[r].queue) > 0
          /\ resources[r].queue[1][2] > resources[r].available
          /\ Len(resources[r].availability_log) >= 3
          /\ resources[r].availability_log[Len(resources[r].availability_log)][2]
                = resources[r].available
          /\ resources[r].availability_log[Len(resources[r].availability_log) - 1][2]
                = resources[r].available - curr_event.attr["num_resources"]

\* C14: release(d, t) with d > capacity - available and seize(d, t) with
\* d > available each raise ValueError and leave available, queue and
\* availability_log as they were.
C14_RejectedCallChangesNothing ==
    [][\A r \in DOMAIN resources :
          /\ (/\ ResourceCalled("seize")
              /\ curr_event'.attr["num_resources"] > resources[r].available)
                => failed' = "ValueError" /\ resources'[r] = resources[r]
          /\ (/\ ResourceCalled("release")
              /\ curr_event'.attr["num_resources"] >
                    resources[r].capacity - resources[r].available)
                => failed' = "ValueError" /\ resources'[r] = resources[r]]_vars

\* a release of more than is seized was rejected on a resource that is partly
\* seized, has a history and has an entity waiting
C14_Witness ==
    /\ pc = "raised"
    /\ failed = "ValueError"
    /\ curr_event.event_name = "release"
    /\ \E r \in DOMAIN resources :
          /\ resources[r].available > 0
          /\ resources[r].available < resources[r].capacity
          /\ curr_event.attr["num_resources"] <= resources[r].capacity
          /\ Len(resources[r].queue) > 0
          /\ Len(resources[r].availability_log) >= 2

\* The caller has just handed a freshly constructed entity to a module of this kind.
Ingested(kind) ==
    /\ pc = "calls"
    /\ next_ind' = next_ind + 1
    /\ curr_event'.event_name = "ingest_entity"
    /\ Modules[curr_event'.event_handler].kind = kind

\* C15: handing a BatchEntity to a Duplicate or Batch module, or an entity
\* that is no BatchEntity to a Separate module, raises TypeError, returns no
\* event and leaves the batch queues and everything else the modules keep
\* as they were.
C15_MisuseRejected ==
    [][(\/ /\ Ingested("Duplicate") \/ Ingested("Batch")
           /\ entities'[next_ind].is_batch
        \/ /\ Ingested("Separate")
           /\ ~entities'[next_ind].is_batch)
       => /\ failed' = "TypeError"
          /\ event_queue' = event_queue
          /\ UNCHANGED <<batch_queue, resources, metrics, trace, variables>>]_vars

\* a BatchEntity was rejected by a Batch module that has an entity waiting
C15_Witness ==
    /\ pc = "raised"
    /\ failed = "TypeError"
    /\ curr_event.event_name = "ingest_entity"
    /\ Modules[curr_event.event_handler].kind = "Batch"
    /\ entities[curr_event.event_entity].is_batch
    /\ Len(batch_queue[curr_event.event_handler]) > 0

\* C16: an Entity handed to an ATTRIBUTE BatchModule whose queue holds at
\* least batch_size - 1 waiters with the same value of batch_attr is batched
\* with the first batch_size - 1 of them in queue order, and the queue
\* afterwards is the old queue without exactly those, the rest in order;
\* otherwise the entity is appended to the queue and no event is returned.
C16_AttributeBatch ==
    [][(/\ Ingested("Batch")
        /\ Modules[curr_event'.event_handler].batch_type = "ATTRIBUTE"
        /\ ~entities'[next_ind].is_batch)
       => LET m == curr_event'.event_handler
              q == batch_queue[m]
              needed == Modules[m].batch_size - 1
              matching == {i \in 1..Len(q) :
                              /\ "kind" \in DOMAIN attrs'[q[i][1]]
                              /\ "kind" \in DOMAIN attrs'[next_ind]
                              /\ attrs'[q[i][1]]["kind"] = attrs'[next_ind]["kind"]}
              first == {i \in matching :
                           Cardinality({j \in matching : j < i}) < needed}
              rest == SelectSeq([i \in 1..Len(q) |-> i], LAMBDA i : i \notin first)
              taken == SelectSeq([i \in 1..Len(q) |-> i], LAMBDA i : i \in first)
          IN  IF Cardinality(matching) >= needed
              THEN /\ failed' = "none"
                   /\ batch_queue'[m] = [k \in 1..Len(rest) |-> q[rest[k]]]
                   /\ Len(event_queue') = Len(event_queue) + 1
                   /\ event_queue'[Len(event_queue')].attr["batch_entities"] =
                         <<<<next_ind, curr_event'.event_time>>>>
                         \o [k \in 1..Len(taken) |-> q[taken[k]]]
              ELSE /\ failed' = "none"
                   /\ batch_queue'[m] = Append(q, <<next_ind, curr_event'.event_time>>)
                   /\ event_queue' = event_queue]_vars

\* C17: an Entity handed to an ANY BatchModule whose queue holds at least
\* batch_size - 1 waiters is batched with the batch_size - 1 oldest, which
\* leave the front of the queue; otherwise it is appended and no event is
\* returned.  From an empty queue the queue never grows beyond batch_size - 1.
C17_AnyBatch ==
    [][(/\ Ingested("Batch")
        /\ Modules[curr_event'.event_handler].batch_type = "ANY"
        /\ ~entities'[next_ind].is_batch)
       => LET m == curr_event'.event_handler
              q == batch_queue[m]
              needed == Modules[m].batch_size - 1
          IN  /\ failed' = "none"
              /\ Len(batch_queue'[m]) <= needed
              /\ IF Len(q) >= needed
                 THEN /\ batch_queue'[m] = SubSeq(q, needed + 1, Len(q))
                      /\ Len(event_queue') = Len(event_queue) + 1
                      /\ event_queue'[Len(event_queue')].event_name = "Batch"
                      /\ event_queue'[Len(event_queue')].attr["batch_entities"] =
                            <<<<next_ind, curr_event'.event_time>>>> \o SubSeq(q, 1, needed)
                 ELSE /\ batch_queue'[m] = Append(q, <<next_ind, curr_event'.event_time>>)
                      /\ event_queue' = event_queue]_vars

\* an ANY batch of three was formed from the arriving entity and two waiters
\* that had come at different times
C17_Witness ==
    /\ pc = "calls"
    /\ curr_event.event_name = "ingest_entity"
    /\ curr_event.event_handler = "Batch Any"
    /\ Modules["Batch Any"].batch_size = 3
    /\ batch_queue["Batch Any"] = <<>>
    /\ Len(event_queue) > 0
    /\ Len(event_queue[Len(event_queue)].attr["batch_entities"]) = 3
    /\ event_queue[Len(event_queue)].attr["batch_entities"][2][2]
          < event_queue[Len(event_queue)].attr["batch_entities"][3][2]

\* C18: processing a Batch event at time t constructs a fresh BatchEntity
\* with Created At = t, adds to every constituent's Wait Time exactly t minus
\* its own batch-queue entry time (0 for the arriving entity) and appends a
\* trace entry at t to every constituent.
C18_BatchProcessed ==
    [][(PopStep /\ curr_event'.event_name = "Batch")
       => /\ next_ind' = next_ind + 1
          /\ next_ind \notin DOMAIN entities
          /\ entities'[next_ind].is_batch
          /\ metrics'[next_ind]["Created At"] = curr_event'.event_time
          /\ curr_event'.attr["batch_entities"][1] =
                <<curr_event'.event_entity, curr_event'.event_time>>
          /\ \A k \in DOMAIN curr_event'.attr["batch_entities"] :
                LET e == curr_event'.attr["batch_entities"][k][1]
                    queue_entry_time == curr_event'.attr["batch_entities"][k][2]
                IN  /\ metrics'[e]["Wait Time"] =
                          metrics[e]["Wait Time"] + (curr_event'.event_time - queue_entry_time)
                    /\ trace'[e] = Append(trace[e], <<curr_event'.event_handler,
                                                      curr_event'.event_time>>)]_vars

\* a batch was formed at time 2 with a constituent queued since time 0, whose
\* Wait Time is now 2
C18_Witness ==
    /\ pc = "loop"
    /\ failed = "none"
    /\ curr_event.event_name = "Batch"
    /\ curr_event.event_time = 2
    /\ \E k \in DOMAIN curr_event.attr["batch_entities"] :
          /\ curr_event.attr["batch_entities"][k][2] = 0
          /\ metrics[curr_event.attr["batch_entities"][k][1]]["Wait Time"] = 2

\* C19 as stated: processing a Separate event at time t writes Disposed At = t
\* for the BatchEntity, appends a trace entry at t to every constituent and
\* ingests the constituents one by one, in batch order, into the successor at
\* t, so that afterwards every constituent has its own pending event or queue
\* position and the BatchEntity has none.
C19_SeparateProcessed ==
    [][(PopStep /\ curr_event'.event_name = "Separate")
       => LET b == curr_event'.event_entity
              t == curr_event'.event_time
              pending == {event_queue'[i][3].event_entity : i \in 1..Len(event_queue')}
              queued == UNION {{resources'[r].queue[i][3] :
                                   i \in 1..Len(resources'[r].queue)} : r \in DOMAIN resources'}
                        \cup UNION {{batch_queue'[m][i][1] :
                                        i \in 1..Len(batch_queue'[m])} : m \in DOMAIN batch_queue'}
          IN  /\ metrics'[b]["Disposed At"] = t
              /\ b \notin pending \cup queued
              /\ \A e \in Range(entities[b].batched_entities) :
                    /\ trace'[e] = Append(trace[e], <<curr_event'.event_handler, t>>)
                    /\ e \in pending \cup queued]_vars

\* C19, amended: as above, but a constituent that the successor, a
\* BatchModule, has batched on the spot is one of the batch_entities of a
\* pending Batch event instead; the constituents reach the successor in
\* batch order, so a successor batching pairs takes the first as the waiter
\* of the second.
C19_SeparateProcessedOrBatched ==
    [][(PopStep /\ curr_event'.event_name = "Separate")
       => LET b == curr_event'.event_entity
              t == curr_event'.event_time
              inds == entities[b].batched_entities
              pending == {event_queue'[i][3].event_entity : i \in 1..Len(event_queue')}
              queued == UNION {{resources'[r].queue[i][3] :
                                   i \in 1..Len(resources'[r].queue)} : r \in DOMAIN resources'}
                        \cup UNION {{batch_queue'[m][i][1] :
                                        i \in 1..Len(batch_queue'[m])} : m \in DOMAIN batch_queue'}
              batches == {event_queue'[i][3].attr["batch_entities"] :
                             i \in {j \in 1..Len(event_queue') :
                                       event_queue'[j][3].event_name = "Batch"}}
              batched == UNION {{bs[k][1] : k \in 1..Len(bs)} : bs \in batches}
          IN  /\ metrics'[b]["Disposed At"] = t
              /\ b \notin pending \cup queued \cup batched
              /\ \A e \in Range(inds) :
                    /\ trace'[e] = Append(trace[e], <<curr_event'.event_handler, t>>)
                    /\ e \in pending \cup queued \cup batched
              /\ Modules[Modules[curr_event'.event_handler].next_module].kind = "Batch"
                    => <<<<inds[2], t>>, <<inds[1], t>>>> \in batches]_vars

\* a pair has been separated: the BatchEntity is disposed and both
\* constituents, traced at the time of the separation, are on their way
C19_Witness ==
    /\ pc = "loop"
    /\ failed = "none"
    /\ curr_event.event_name = "Separate"
    /\ Disposed(curr_event.event_entity)
    /\ Len(entities[curr_event.event_entity].batched_entities) = 2
    /\ \A e \in Range(entities[curr_event.event_entity].batched_entities) :
          /\ trace[e][Len(trace[e])] = <<curr_event.event_handler, curr_event.event_time>>
          /\ \E i \in 1..Len(event_queue) : event_queue[i][3].event_entity = e

\* C20: one Assign event applies the module's whole assignment list in list
\* order, each value handler reading the variables and the entity's attributes
\* as the earlier assignments of the same event left them: in testcase_3
\* last_entity is incremented and entity_id is the incremented value, distinct
\* from every other entity's; in testcase_5 couple_ind and going_to_store1 are
\* computed from the incremented last_entity_ind.
C20_AssignInOrder ==
    [][(PopStep /\ curr_event'.event_name = "Assign")
       => LET e == curr_event'.event_entity
              attr == attrs'[entities[e].attr]
          IN  /\ failed' = "none"
              /\ trace'[e] = Append(trace[e], <<curr_event'.event_handler,
                                                curr_event'.event_time>>)
              /\ curr_event'.event_handler = "Assign entity ID"
                    => /\ variables'["last_entity"] = variables["last_entity"] + 1
                       /\ attr["entity_id"] = variables["last_entity"] + 1
                       /\ \A o \in DOMAIN attrs' \ {entities[e].attr} :
                             "entity_id" \in DOMAIN attrs'[o]
                                => attrs'[o]["entity_id"] # attr["entity_id"]
              /\ curr_event'.event_handler = "Assign Errands"
                    => /\ variables'["last_entity_ind"] = variables["last_entity_ind"] + 1
                       /\ attr["couple_ind"] = (variables["last_entity_ind"] + 1) \div 2
                       /\ attr["going_to_store1"] =
                             ((variables["last_entity_ind"] + 1) % 2 = 0)]_vars

\* the second entity of testcase_3 has been assigned entity_id 2, the first
\* has entity_id 1
C20_Witness ==
    /\ pc = "loop"
    /\ curr_event.event_name = "Assign"
    /\ curr_event.event_handler = "Assign entity ID"
    /\ variables["last_entity"] = 2
    /\ attrs[entities[curr_event.event_entity].attr]["entity_id"] = 2
    /\ \E o \in DOMAIN attrs :
          "entity_id" \in DOMAIN attrs[o] /\ attrs[o]["entity_id"] = 1

\* C21: for every Assign event the value handler of every assignment of the
\* module's list, whatever its kind, is invoked exactly once.
C21_HandlerPerAssignment ==
    [][(PopStep /\ curr_event'.event_name = "Assign")
       => handler_calls' =
            [k \in 1..Len(Modules[curr_event'.event_handler].assignments) |->
                Modules[curr_event'.event_handler].assignments[k].assign_value_handler]]_vars

\* C22: no two module instances of a module graph have the same module_ind,
\* whatever their kinds and the order they were constructed in.
C22_ModuleIndUnique ==
    Cardinality(DOMAIN Modules) <= MaxModules
       => \A order \in ConstructionOrders :
             \A j, k \in DOMAIN order :
                j # k => module_ind(order, j) # module_ind(order, k)

\* C23: entity inds are never reused and strictly increase in the order of
\* construction, over the arrivals precomputed by every CreateModule, the
\* duplicates and the BatchEntities: every newly constructed entity's ind is
\* greater than the ind of every entity constructed before it.
C23_IndsIncrease ==
    [][/\ \A old \in DOMAIN entities :
             /\ old \in DOMAIN entities'
             /\ entities'[old].arrival_time = entities[old].arrival_time
             /\ \A new \in DOMAIN entities' \ DOMAIN entities : new > old
       /\ \A ind \in DOMAIN entities' : ind < next_ind'
       /\ (PopStep /\ failed' = "none" /\ curr_event'.event_name \in {"Duplicate", "Batch"})
             => Cardinality(DOMAIN entities' \ DOMAIN entities) = 1
       /\ pc = "init"
             => /\ Cardinality(DOMAIN entities') =
                     SumFun([m \in DOMAIN arrivals |-> Len(arrivals[m])], DOMAIN arrivals)
                \* one CreateModule constructs its entities in the order of its arrivals
                /\ \A i, j \in DOMAIN entities' :
                      (i < j /\ entities'[i].entity_type = entities'[j].entity_type)
                         => entities'[i].arrival_time <= entities'[j].arrival_time]_vars

\* arrivals, a duplicate and a BatchEntity have been constructed, in that order
C23_Witness ==
    \E a, d, b \in DOMAIN entities :
        /\ a < d /\ d < b
        /\ entities[b].is_batch
        /\ ~entities[d].is_batch
        /\ d \in DOMAIN metrics /\ Len(trace[d]) > 0 /\ trace[d][1][1] = "Duplicate 1"
        /\ Len(trace[a]) > 0 /\ trace[a][1][1] = "Create Person"

\* C24: a second run for the same duration on an identically built graph with
\* identical arrival and delay streams ends with the same sys_var as the
\* first: the same entity inds as keys, the same metrics, the same traces.
C24_RerunIdentical ==
    (pc = "done" /\ failed = "none" /\ first_run # <<>>)
       => metrics = first_run.metrics /\ trace = first_run.trace

\* C25: calc_utilization(duration) is the busy-time integral of the
\* availability log over capacity * duration: the sum over adjacent samples
\* (t1, a1), (t2, _) of (t2 - t1) * (capacity - a1), divided by
\* capacity * duration.
C25_UtilizationIsBusyTime ==
    pc = "done"
       => \A r \in DOMAIN resources :
             LET log == resources[r].availability_log
             IN  calc_utilization(resources[r], duration) =
                    [num |-> SumFun([i \in 1..(Len(log) - 1) |->
                                        (log[i + 1][1] - log[i][1])
                                        * (resources[r].capacity - log[i][2])],
                                    1..(Len(log) - 1)),
                     den |-> resources[r].capacity * duration]

\* C26 as stated: for the log a run of length duration leaves,
\* calc_utilization(duration) is 1 minus the true utilization, the fraction
\* of capacity * duration during which units were seized over [0, duration]:
\* all units are available before the first sample, and the last sample
\* holds until duration.
C26_ReturnsComplement ==
    pc = "done"
       => \A r \in DOMAIN resources :
             LET log == resources[r].availability_log
                 capacity == resources[r].capacity
                 busy == IF Len(log) = 0 THEN 0
                         ELSE SumFun([i \in 1..(Len(log) - 1) |->
                                         (log[i + 1][1] - log[i][1]) * (capacity - log[i][2])],
                                     1..(Len(log) - 1))
                              + (duration - log[Len(log)][1]) * (capacity - log[Len(log)][2])
             IN  calc_utilization(resources[r], duration) =
                    [num |-> capacity * duration - busy, den |-> capacity * duration]

\* C26, amended: calc_utilization(duration) is the integral of available
\* between the first and the last sample of the log over capacity * duration:
\* 1 minus the true utilization, less the availability before the first
\* sample (capacity * t_first) and after the last (a_last * (duration -
\* t_last)); for an empty log it is 0.
C26_ReturnsSampledAvailability ==
    pc = "done"
       => \A r \in DOMAIN resources :
             LET log == resources[r].availability_log
                 capacity == resources[r].capacity
                 busy == IF Len(log) = 0 THEN 0
                         ELSE SumFun([i \in 1..(Len(log) - 1) |->
                                         (log[i + 1][1] - log[i][1]) * (capacity - log[i][2])],
                                     1..(Len(log) - 1))
                              + (duration - log[Len(log)][1]) * (capacity - log[Len(log)][2])
             IN  calc_utilization(resources[r], duration) =
                    [num |-> IF Len(log) = 0 THEN 0
                             ELSE capacity * duration - busy
                                  - capacity * log[1][1]
                                  - log[Len(log)][2] * (duration - log[Len(log)][1]),
                     den |-> capacity * duration]

\* a run has ended with a log that starts after time 0, ends before duration
\* and has units available between two of its samples
C26_Witness ==
    /\ pc = "done"
    /\ \E r \in DOMAIN resources :
          /\ Len(resources[r].availability_log) >= 3
          /\ resources[r].availability_log[1][1] > 0
          /\ resources[r].availability_log[Len(resources[r].availability_log)][1] < duration
          /\ calc_utilization(resources[r], duration).num > 0

\* C27: one Resource.release wakes at most one queued entity, even when the
\* units released would satisfy several: the queue gets shorter by at most
\* one and at most one Seize event is synthesized.  A ReleaseModule's
\* ingest_entity returns either the Release event alone or the synthesized
\* Seize event of the queue's head followed by the Release event, all at the
\* release time.
C27_ReleaseWakesAtMostOne ==
    [][LET returned == SubSeq(event_queue', Len(event_queue) + 1, Len(event_queue'))
           t == curr_event'.event_time
       IN  /\ (ResourceCalled("release") /\ failed' = "none")
                => LET r == curr_event'.event_handler
                       woken == Len(resources[r].queue) - Len(resources'[r].queue)
                   IN  /\ woken \in {0, 1}
                       /\ Len(returned) = woken
                       /\ \A i \in DOMAIN returned :
                             /\ returned[i].event_name = "Seize"
                             /\ returned[i].event_time = t
           /\ (/\ pc = "calls" /\ pc' = "calls"
               /\ curr_event'.event_name = "ingest_entity"
               /\ Modules[curr_event'.event_handler].kind = "Release")
                => LET r == Modules[curr_event'.event_handler].resource
                       woken == Len(resources[r].queue) - Len(resources'[r].queue)
                   IN  /\ woken \in {0, 1}
                       /\ Len(returned) = woken + 1
                       /\ \A i \in DOMAIN returned : returned[i].event_time = t
                       /\ returned[Len(returned)].event_name = "Release"
                       /\ returned[Len(returned)].event_entity = curr_event'.event_entity
                       /\ woken = 1
                             => /\ returned[1].event_name = "Seize"
                                /\ returned[1].event_entity = resources[r].queue[1][3]]_vars

\* a ReleaseModule gave back two units with two entities waiting for one unit
\* each: one was woken, the other is still queued
C27_Witness ==
    /\ pc = "calls"
    /\ curr_event.event_name = "ingest_entity"
    /\ curr_event.event_handler = "Release 2"
    /\ Len(resources["Server"].queue) = 1
    /\ resources["Server"].queue[1][2] = 1
    /\ Len(event_queue) >= 2
    /\ event_queue[Len(event_queue)].event_name = "Release"
    /\ event_queue[Len(event_queue) - 1].event_name = "Seize"
    /\ event_queue[Len(event_queue) - 1].event_handler = "Seize 1"
    /\ event_queue[Len(event_queue) - 1].event_time = curr_event.event_time

\* C28: the entity a release wakes is always the waiter that is minimal under
\* (queue entry time, demand, ind) among the queued; no waiter is woken while
\* one that precedes it is still queued: when the minimal waiter's demand
\* does not fit nobody is woken, even if a later waiter's demand would fit.
C28_WakesMinimalWaiter ==
    [][\A r \in DOMAIN resources :
          LET q == resources[r].queue
              Precedes(a, b) == \/ a[1] < b[1]
                                \/ a[1] = b[1] /\ a[2] < b[2]
                                \/ a[1] = b[1] /\ a[2] = b[2] /\ a[3] <= b[3]
              returned == SubSeq(event_queue', Len(event_queue) + 1, Len(event_queue'))
              releasing == \/ ResourceCalled("release") /\ curr_event'.event_handler = r
                           \/ /\ pc = "calls" /\ pc' = "calls"
                              /\ curr_event'.event_name = "ingest_entity"
                              /\ Modules[curr_event'.event_handler].kind = "Release"
                              /\ Modules[curr_event'.event_handler].resource = r
          IN  /\ Len(resources'[r].queue) < Len(q)
                    => \E i \in 1..Len(q) :
                          /\ \A j \in 1..Len(q) : Precedes(q[i], q[j])
                          /\ Range(resources'[r].queue) = Range(q) \ {q[i]}
                          /\ returned[1].event_name = "Seize"
                          /\ returned[1].event_entity = q[i][3]
                          /\ returned[1].event_handler = q[i][4]
              /\ (releasing /\ failed' = "none" /\ Len(resources'[r].queue) = Len(q))
                    => /\ resources'[r].queue = q
                       /\ \A i \in 1..Len(q) :
                             (\A j \in 1..Len(q) : Precedes(q[i], q[j]))
                                => q[i][2] > resources'[r].available]_vars

\* a release has woken the waiter for two units that was queued first, and a
\* waiter for one unit that was queued later is still waiting
C28_Witness ==
    /\ pc = "calls"
    /\ curr_event.event_name = "ingest_entity"
    /\ Modules[curr_event.event_handler].kind = "Release"
    /\ Len(event_queue) >= 2
    /\ event_queue[Len(event_queue) - 1].event_name = "Seize"
    /\ event_queue[Len(event_queue) - 1].event_handler = "Seize 2"
    /\ event_queue[Len(event_queue) - 1].event_time = curr_event.event_time
    /\ Len(resources["Server"].queue) = 1
    /\ resources["Server"].queue[1][2] = 1
    /\ event_queue[Len(event_queue) - 1].woken_from < resources["Server"].queue[1][1]

\* C29: SeizeModule.ingest_entity with available < num_resources queues the
\* entity, returns no event and leaves available and availability_log
\* unchanged; with available >= num_resources it decrements available by
\* num_resources, appends exactly one log sample, returns exactly one Seize
\* event at the ingest time and leaves the queue unchanged, also when the
\* queue is not empty.
C29_SeizeIngestFrame ==
    [][Ingested("Seize")
       => LET m == curr_event'.event_handler
              r == Modules[m].resource
              n == Modules[m].num_resources
              t == curr_event'.event_time
          IN  /\ failed' = "none"
              /\ \A o \in DOMAIN resources \ {r} : resources'[o] = resources[o]
              /\ resources'[r].capacity = resources[r].capacity
              /\ IF resources[r].available < n
                 THEN /\ Len(resources'[r].queue) = Len(resources[r].queue) + 1
                      /\ Range(resources'[r].queue) =
                            Range(resources[r].queue) \cup {<<t, n, next_ind, m>>}
                      /\ event_queue' = event_queue
                      /\ resources'[r].available = resources[r].available
                      /\ resources'[r].availability_log = resources[r].availability_log
                 ELSE /\ resources'[r].available = resources[r].available - n
                      /\ resources'[r].availability_log =
                            Append(resources[r].availability_log,
                                   <<t, resources[r].available - n>>)
                      /\ Len(event_queue') = Len(event_queue) + 1
                      /\ SubSeq(event_queue', 1, Len(event_queue)) = event_queue
                      /\ event_queue'[Len(event_queue')].event_name = "Seize"
                      /\ event_queue'[Len(event_queue')].event_time = t
                      /\ event_queue'[Len(event_queue')].event_entity = next_ind
                      /\ event_queue'[Len(event_queue')].event_handler = m
                      /\ resources'[r].queue = resources[r].queue]_vars

\* an entity handed to a SeizeModule has seized its unit at once although
\* another entity is waiting in the resource's queue
C29_Witness ==
    /\ pc = "calls"
    /\ curr_event.event_name = "ingest_entity"
    /\ Modules[curr_event.event_handler].kind = "Seize"
    /\ Len(resources["Server"].queue) > 0
    /\ Len(event_queue) > 0
    /\ event_queue[Len(event_queue)].event_name = "Seize"
    /\ event_queue[Len(event_queue)].event_entity = curr_event.event_entity
    /\ event_queue[Len(event_queue)].event_time = curr_event.event_time
    /\ resources["Server"].availability_log[Len(resources["Server"].availability_log)]
          = <<curr_event.event_time, resources["Server"].available>>

\* C30: between two handlers every entity that was created and is neither
\* disposed nor a separated BatchEntity is in exactly one place: it is the
\* subject of exactly one pending event, or a waiter in exactly one resource
\* queue, or a waiter in exactly one BatchModule queue, or a constituent of
\* exactly one live BatchEntity or of the payload of one pending Batch
\* event (the arriving entity of a Batch event counts once, in its payload).
\* No entity is lost, pending twice or member of two batches, whatever the
\* batch_size.
C30_ExactlyOnePlace ==
    (pc \in {"loop", "done"} /\ failed = "none")
       => \A e \in DOMAIN entities :
             ~Disposed(e) =>
                LET pending == {i \in 1..Len(event_queue) :
                                   /\ event_queue[i][3].event_name # "Batch"
                                   /\ event_queue[i][3].event_entity = e}
                    payload == {ik \in (1..Len(event_queue)) \X (1..MaxBurst) :
                                   /\ event_queue[ik[1]][3].event_name = "Batch"
                                   /\ ik[2] <= Len(event_queue[ik[1]][3].attr["batch_entities"])
                                   /\ event_queue[ik[1]][3].attr["batch_entities"][ik[2]][1] = e}
                    waiting == {ri \in (DOMAIN resources) \X (1..MaxBurst) :
                                   /\ ri[2] <= Len(resources[ri[1]].queue)
                                   /\ resources[ri[1]].queue[ri[2]][3] = e}
                    batching == {mi \in (DOMAIN batch_queue) \X (1..MaxBurst) :
                                    /\ mi[2] <= Len(batch_queue[mi[1]])
                                    /\ batch_queue[mi[1]][mi[2]][1] = e}
                    batched == {bk \in {b \in DOMAIN entities :
                                             entities[b].is_batch /\ ~Disposed(b)}
                                        \X (1..MaxBurst) :
                                   /\ bk[2] <= Len(entities[bk[1]].batched_entities)
                                   /\ entities[bk[1]].batched_entities[bk[2]] = e}
                IN  Cardinality(pending) + Cardinality(payload) + Cardinality(waiting)
                       + Cardinality(batching) + Cardinality(batched) = 1

C32_BucketsCoverStay ==
    (\A m \in DOMAIN Modules :
        Modules[m].kind \in {"Create", "Seize", "Delay", "Release", "Assign",
                             "Decide", "Dispose"})
       => \A e \in DOMAIN metrics :
             Disposed(e)
                => metrics[e]["Disposed At"] - metrics[e]["Created At"] =
                      metrics[e]["Value-Added Time"] + metrics[e]["Non-Value-Added Time"]
                      + metrics[e]["Wait Time"] + metrics[e]["Transfer Time"]
                      + metrics[e]["Other Time"]

\* C33: when every Seize and Release module of a resource uses
\* num_resources = 1, then between two handlers a non-empty queue of the
\* resource implies available = 0: no entity waits while a unit is free, and
\* no unit is taken from the free ones (available never decreases) while an
\* entity is queued.
C33_NoWaitWhileFree ==
    [][\A r \in DOMAIN resources :
          (\A m \in DOMAIN Modules :
              (Modules[m].kind \in {"Seize", "Release"} /\ Modules[m].resource = r)
                 => Modules[m].num_resources = 1)
             => /\ resources[r].queue # <<>> => resources[r].available = 0
                /\ resources'[r].queue # <<>> => resources'[r].available = 0
                /\ resources'[r].available < resources[r].available
                      => resources[r].queue = <<>>]_vars

\* an arriving entity found no unit free and was queued
C33_Witness ==
    /\ cfg = "testcase_2"
    /\ pc = "loop"
    /\ curr_event.event_name = "Create"
    /\ Len(resources["Server"].queue) = 1
    /\ resources["Server"].queue[1][3] = curr_event.event_entity
    /\ resources["Server"].available = 0

\* C34: in the chain Create -> Seize(R, 1) -> Delay -> Release(R, 1) ->
\* Dispose with R.capacity = 1 and strictly increasing arrival times the
\* entities are served first come, first served: entity k leaves Seize at
\* the later of its arrival time and the release time of entity k - 1, at
\* most one entity is between Seize and Release at any time, and the
\* entities are disposed in arrival order.
C34_FirstComeFirstServed ==
    (/\ Graph = Testcase2
     /\ resources["Server"].capacity = 1
     /\ \A i \in 1..(Len(arrivals["Test Create"]) - 1) :
           arrivals["Test Create"][i] < arrivals["Test Create"][i + 1])
       => LET Has(e, m) == e \in DOMAIN trace /\ \E k \in 1..Len(trace[e]) : trace[e][k][1] = m
              At(e, m) == trace[e][CHOOSE k \in 1..Len(trace[e]) : trace[e][k][1] = m][2]
              Max(a, b) == IF a >= b THEN a ELSE b
          IN  /\ failed = "none"
              /\ \A e \in DOMAIN metrics :
                    /\ metrics[e]["Created At"] = arrivals["Test Create"][e + 1]
                    /\ Has(e, "Test Seize")
                          => IF e = 0 THEN At(e, "Test Seize") = metrics[e]["Created At"]
                             ELSE /\ Has(e - 1, "Test Release")
                                  /\ At(e, "Test Seize") =
                                        Max(metrics[e]["Created At"], At(e - 1, "Test Release"))
                    /\ \A o \in DOMAIN metrics :
                          (o < e /\ Disposed(e))
                             => /\ Disposed(o)
                                /\ metrics[o]["Disposed At"] <= metrics[e]["Disposed At"]
              /\ Cardinality({e \in DOMAIN metrics :
                                 Has(e, "Test Seize") /\ ~Has(e, "Test Release")}) <= 1
              /\ Cardinality({e \in DOMAIN held["Server"] : held["Server"][e] > 0}) <= 1

\* the third entity, which arrived at 2 while the second was still queued,
\* left Seize at 3, after the second had left it and released
C34_Witness ==
    /\ cfg = "line"
    /\ resources["Server"].capacity = 1
    /\ 2 \in DOMAIN trace
    /\ \E k \in 1..Len(trace[2]) : trace[2][k] = <<"Test Seize", 3>>
    /\ \E k \in 1..Len(trace[1]) : trace[1][k] = <<"Test Seize", 3>>
    /\ \E k \in 1..Len(trace[0]) : trace[0][k] = <<"Test Release", 3>>

\* C35: in testcase_3 every BatchEntity consists of exactly one original and
\* the duplicate made from it, whatever the order in which the two branches
\* complete; it is formed at the later of the two completion times, and the
\* constituent that completed its branch earlier has waited for the
\* difference (the other for 0).
C35_RendezvousWithOwnDuplicate ==
    Graph = Testcase3
       => \A b \in DOMAIN metrics :
             entities[b].is_batch
                => LET members == entities[b].batched_entities
                       Left(e) == trace[e][CHOOSE k \in 1..Len(trace[e]) :
                                              trace[e][k][1] \in {"Delay 1", "Delay 2"}][2]
                   IN  /\ Len(members) = 2
                       /\ \E orig, dup \in Range(members) :
                             /\ orig # dup
                             /\ trace[orig][1][1] = "Create Person"
                             /\ trace[dup][1][1] = "Duplicate 1"
                             \* the duplicate was made from orig: it refers to orig's attr
                             /\ entities[orig].attr = orig
                             /\ entities[dup].attr = orig
                             /\ \E k \in 1..Len(trace[orig]) :
                                   /\ trace[orig][k][1] = "Duplicate 1"
                                   /\ trace[orig][k][2] = metrics[dup]["Created At"]
                             /\ metrics[b]["Created At"] =
                                   (IF Left(orig) >= Left(dup) THEN Left(orig) ELSE Left(dup))
                             /\ metrics[orig]["Wait Time"] = metrics[b]["Created At"] - Left(orig)
                             /\ metrics[dup]["Wait Time"] = metrics[b]["Created At"] - Left(dup)

\* two originals were duplicated; a duplicate met its original, which had
\* completed its branch earlier and waited, while the other original was
\* waiting in the same queue
C35_Witness ==
    /\ cfg = "testcase_3"
    /\ \E b \in DOMAIN metrics :
          /\ entities[b].is_batch
          /\ Len(batch_queue["Batch 1"]) > 0
          /\ \E e \in Range(entities[b].batched_entities) :
                /\ trace[e][1][1] = "Create Person"
                /\ metrics[e]["Wait Time"] > 0

\* C36: every batch has exactly batch_size constituents, pairwise distinct,
\* none of them a BatchEntity; the constituents of an ATTRIBUTE batch all
\* carry batch_attr with the same value; and an entity that lacks batch_attr
\* is never matched: once queued at an ATTRIBUTE BatchModule it never leaves
\* the batch queue.
C36_BatchWellFormed ==
    [][/\ \A k \in (Len(event_queue) + 1)..Len(event_queue') :
             event_queue'[k].event_name = "Batch"
                => LET m == event_queue'[k].event_handler
                       members == event_queue'[k].attr["batch_entities"]
                   IN  /\ Len(members) = Modules[m].batch_size
                       /\ \A i, j \in 1..Len(members) :
                             i # j => members[i][1] # members[j][1]
                       /\ \A i \in 1..Len(members) :
                             /\ ~entities'[members[i][1]].is_batch
                             /\ Modules[m].batch_type = "ATTRIBUTE"
                                   => /\ Modules[m].batch_attr
                                            \in DOMAIN attrs'[entities'[members[i][1]].attr]
                                      /\ attrs'[entities'[members[i][1]].attr][Modules[m].batch_attr]
                                            = attrs'[entities'[members[1][1]].attr][Modules[m].batch_attr]
       /\ \A m \in DOMAIN batch_queue :
             Modules[m].batch_type = "ATTRIBUTE"
                => \A i \in 1..Len(batch_queue[m]) :
                      Modules[m].batch_attr \notin DOMAIN attrs[entities[batch_queue[m][i][1]].attr]
                         => \E j \in 1..Len(batch_queue'[m]) :
                               batch_queue'[m][j] = batch_queue[m][i]]_vars

\* C37: DuplicateModule.process_event gives the duplicate a fresh ind,
\* Created At equal to the event time and the original's entity type; the
\* original is ingested by next_module_orig and the duplicate by
\* next_module_dup, both at the event time (a Delay successor schedules its
\* event delay_time later); and the two share one attribute map: what an
\* Assign later writes for the one is read through the other.
C37_DuplicateShares ==
    [][/\ (PopStep /\ failed' = "none" /\ curr_event'.event_name = "Duplicate")
          => LET orig == curr_event'.event_entity
                 dup == next_ind
                 t == curr_event'.event_time
                 m == curr_event'.event_handler
                 Ingested_by(e, succ) ==
                    \E i \in 1..Len(event_queue') :
                       /\ event_queue'[i][3].event_entity = e
                       /\ event_queue'[i][3].event_handler = succ
                       /\ event_queue'[i][3].event_time =
                             t + (IF Modules[succ].kind = "Delay"
                                  THEN event_queue'[i][3].attr["delay_time"] ELSE 0)
             IN  /\ next_ind' = next_ind + 1
                 /\ dup \notin DOMAIN entities
                 /\ ~entities'[dup].is_batch
                 /\ entities'[dup].entity_type = entities[orig].entity_type
                 /\ metrics'[dup]["Entity Type"] = entities[orig].entity_type
                 /\ metrics'[dup]["Created At"] = t
                 /\ attrs'[entities'[dup].attr] = attrs[entities[orig].attr]
                 /\ Ingested_by(orig, Modules[m].next_module)
                 /\ Ingested_by(dup, Modules[m].next_module_dup)
                 /\ Len(event_queue') = Len(event_queue) + 1
       /\ (/\ PopStep /\ failed' = "none" /\ curr_event'.event_name = "Assign"
           /\ Graph = Shared)
          => LET e == curr_event'.event_entity
                 n == Len(arrivals["Create Person"])
                 \* originals are numbered 0..n-1 and duplicated in that order
                 other == IF e < n THEN e + n ELSE e - n
             IN  /\ other \in DOMAIN entities
                 /\ "entity_id" \in DOMAIN attrs'[entities[other].attr]
                 /\ attrs'[entities[other].attr]["entity_id"] = variables["last_entity"] + 1
                 /\ attrs'[entities[e].attr]["entity_id"] = variables["last_entity"] + 1]_vars

\* the second original has been assigned entity_id 2 while its duplicate is
\* still delayed: the duplicate reads 2
C37_Witness ==
    /\ cfg = "shared"
    /\ pc = "loop"
    /\ failed = "none"
    /\ curr_event.event_name = "Assign"
    /\ curr_event.event_entity = 1
    /\ Len(arrivals["Create Person"]) = 2
    /\ variables["last_entity"] = 2
    /\ 3 \in DOMAIN metrics
    /\ ~Disposed(3)
    /\ trace[3] = <<<<"Duplicate 1", metrics[3]["Created At"]>>>>
    /\ attrs[entities[3].attr]["entity_id"] = 2

====
